---- MODULE Spec2Model ----
(***************************************************************************)
(* A model of the wc-audio-player composition core: createPlayer and the   *)
(* player object it returns (src/src/core/player.ts), the shared screen    *)
(* reader announcer (src/src/core/accessibility.ts), the control binders   *)
(* and config normalizers (src/src/core/controls.ts), the keyboard         *)
(* shortcuts (src/src/types.ts, keyboard section) and the analytics plugin *)
(* (src/src/plugins/analytics.ts).                                         *)
(*                                                                         *)
(* Encodings.  Numbers the code keeps as floats are kept exact:            *)
(*   - a playback speed or a volume is an integer number of hundredths     *)
(*     (speed 0.75 is 75, volume 1 is 100);                                *)
(*   - a time is an integer number of milliseconds;                        *)
(*   - a seek progress is a fraction <<n, d>> with d > 0.                  *)
(* An optional field of a caller-supplied object is a sequence: <<>> when  *)
(* the field is absent, <<v>> when it is given as v.                       *)
(* The AudioEngine (wavesurfer.js) is an external collaborator: it is      *)
(* modelled by the state the player reads back from it (volume, rate,      *)
(* current time, duration), the handlers registered on it, and the calls   *)
(* made on it, which are recorded in `trace`.                              *)
(***************************************************************************)
EXTENDS Integers, Sequences, FiniteSets, TLC

\* ------------------------------------------------------------------ bounds
NumPlayers == 2
MaxPlugins == 2
MaxDestroys == 2
MaxPending == 3

Players == 1..NumPlayers
PluginIds == 1..MaxPlugins

\* --------------------------------------------------------------- constants
DEFAULT_SPEED_OPTIONS == <<50, 75, 100, 125, 150, 175, 200>>
DEFAULT_SKIP_SECONDS == 15

VARIABLES
    phase,            \* per player: "absent" (createPlayer not called), "fetching"
                      \* (initializePlayer suspended at await loadPeaks), "bound"
    options,          \* per player: the caller's options and the host markup
    state,            \* per player: PlayerState
    wavesurfer,       \* per player: TRUE when the closure variable holds an engine
    engine,           \* per player: the engine instance created by initializePlayer
    cleanupFns,       \* per player: the registered cleanup callbacks
    plugins,          \* per player: the plugin registry (plugin ids, in order)
    plug,             \* per plugin instance: its closure state
    methods,          \* per player: the wrappers rebound on setSpeed/skipForward/skipBack
    keydown,          \* the keydown listeners attached to the document
    container,        \* per player: its container element
    controls,         \* per player: which control elements got click handlers
    announcerElement, \* accessibility.ts module variable: "null", "attached", "detached"
    bodyAnnouncers,   \* number of elements with id wc-player-announcer in the body
    region,           \* the announcer element's text and the callbacks deferred on it
    inputFocused,     \* document.activeElement is an input, textarea, select or editable
    destroyCalls,     \* per player: how many times destroy() has been called
    trace             \* what the last handler did, in order: the call, then its effects

vars == <<phase, options, state, wavesurfer, engine, cleanupFns, plugins, plug,
          methods, keydown, container, controls, announcerElement, bodyAnnouncers,
          region, inputFocused, destroyCalls, trace>>

\* ----------------------------------------------------------------- helpers
Max(a, b) == IF a >= b THEN a ELSE b
Min(a, b) == IF a <= b THEN a ELSE b

\* Array.prototype.indexOf: the 0-based index of the first occurrence, or -1.
IndexOf(arr, v) ==
    IF \E i \in 1..Len(arr) : arr[i] = v
    THEN (CHOOSE i \in 1..Len(arr) : arr[i] = v /\ \A j \in 1..(i - 1) : arr[j] # v) - 1
    ELSE 0 - 1

\* arr[i] for a 0-based index.
At(arr, i) == arr[i + 1]

\* ------------------------------------------------- configuration normalizers
\* A feature config is [kind |-> "false" | "true" | "undefined" | "object", ...]
\* with the object's optional fields present for every kind (unused unless "object").
\* `enabled` is "absent", "undefined", "true" or "false".
SpeedObject(enabled, opts, defaultSpeed) ==
    [kind |-> "object", enabled |-> enabled, options |-> opts, defaultSpeed |-> defaultSpeed]
SpeedShorthand(kind) ==
    [kind |-> kind, enabled |-> "absent", options |-> <<>>, defaultSpeed |-> <<>>]
SkipObject(enabled, seconds) ==
    [kind |-> "object", enabled |-> enabled, seconds |-> seconds]
SkipShorthand(kind) ==
    [kind |-> kind, enabled |-> "absent", seconds |-> <<>>]

\* JS truthiness of an optional number: absent (undefined) and 0 are falsy.
TruthyNum(opt) == opt # <<>> /\ opt[1] # 0

normalizeSpeedConfig(config) ==
    IF config.kind = "false"
    THEN [enabled |-> FALSE, options |-> DEFAULT_SPEED_OPTIONS, defaultSpeed |-> 100]
    ELSE IF config.kind \in {"true", "undefined"}
    THEN [enabled |-> TRUE, options |-> DEFAULT_SPEED_OPTIONS, defaultSpeed |-> 100]
    ELSE [enabled |-> config.enabled # "false",
          options |-> IF config.options # <<>> THEN config.options[1]
                      ELSE DEFAULT_SPEED_OPTIONS,
          defaultSpeed |-> IF TruthyNum(config.defaultSpeed) THEN config.defaultSpeed[1]
                           ELSE 100]

normalizeSkipConfig(config) ==
    IF config.kind = "false"
    THEN [enabled |-> FALSE, seconds |-> DEFAULT_SKIP_SECONDS]
    ELSE IF config.kind \in {"true", "undefined"}
    THEN [enabled |-> TRUE, seconds |-> DEFAULT_SKIP_SECONDS]
    ELSE [enabled |-> config.enabled # "false",
          seconds |-> IF TruthyNum(config.seconds) THEN config.seconds[1]
                      ELSE DEFAULT_SKIP_SECONDS]

\* The key-list fields of a KeyboardConfig.
KeyListFields ==
    {"playPause", "skipBack", "skipForward", "speedUp", "speedDown", "mute",
     "jumpStart", "jumpEnd"}

\* No key list given.
NoLists == [f \in KeyListFields |-> <<>>]

\* A keyboard config object: `lists` gives, for each key-list field, <<>> when the
\* object leaves it out and <<keys>> when it supplies it; showHints likewise.
KeyboardPartial(enabled, lists, showHints) ==
    [kind |-> "object", enabled |-> enabled, lists |-> lists, showHints |-> showHints]
KeyboardObject(enabled) == KeyboardPartial(enabled, NoLists, <<>>)
KeyboardShorthand(kind) ==
    [kind |-> kind, enabled |-> "absent", lists |-> NoLists, showHints |-> <<>>]

\* DEFAULT_KEYBOARD_CONFIG, the key lists as sets.
DEFAULT_KEYBOARD_CONFIG ==
    [enabled |-> TRUE,
     playPause |-> {" ", "k", "K"},
     skipBack |-> {"j", "J", "ArrowLeft"},
     skipForward |-> {"l", "L", "ArrowRight"},
     speedUp |-> {"ArrowUp"},
     speedDown |-> {"ArrowDown"},
     mute |-> {"m", "M"},
     jumpStart |-> {"0", "Home"},
     jumpEnd |-> {"End"},
     showHints |-> TRUE]

\* A normalizeKeyboardConfig that takes `false` for the defaults.
normalizeKeyboardConfig_falseIgnored(config) ==
    IF config.kind \in {"false", "true", "undefined"}
    THEN DEFAULT_KEYBOARD_CONFIG
    ELSE [DEFAULT_KEYBOARD_CONFIG EXCEPT
             !.enabled = IF config.enabled = "absent" THEN TRUE
                         ELSE config.enabled = "true"]

\* { ...DEFAULT_KEYBOARD_CONFIG, ...config }: every key the object has overrides the
\* default with its value; for `enabled` also when that value is undefined, which is
\* falsy where the config is read (FALSE here).
normalizeKeyboardConfig(config) ==
    IF config.kind = "false"
    THEN [DEFAULT_KEYBOARD_CONFIG EXCEPT !.enabled = FALSE]
    ELSE IF config.kind \in {"true", "undefined"}
    THEN DEFAULT_KEYBOARD_CONFIG
    ELSE LET list(f) == IF config.lists[f] = <<>> THEN DEFAULT_KEYBOARD_CONFIG[f]
                        ELSE config.lists[f][1]
         IN  [enabled |-> IF config.enabled = "absent" THEN TRUE
                          ELSE config.enabled = "true",
              playPause |-> list("playPause"),
              skipBack |-> list("skipBack"),
              skipForward |-> list("skipForward"),
              speedUp |-> list("speedUp"),
              speedDown |-> list("speedDown"),
              mute |-> list("mute"),
              jumpStart |-> list("jumpStart"),
              jumpEnd |-> list("jumpEnd"),
              showHints |-> IF config.showHints = <<>> THEN TRUE
                            ELSE config.showHints[1]]

\* { ...DEFAULT_FEATURES, ...options.features }: a feature key the caller leaves out
\* ("absent") takes the default, which is `true` for keyboard, speed and skip.
MergedFeature(config) ==
    IF config.kind = "absent" THEN [config EXCEPT !.kind = "true"] ELSE config

\* JS truthiness of a merged feature value: false and undefined are falsy.
TruthyFeature(config) == config.kind \in {"true", "object"}

\* ------------------------------------------------------------ PlayerState
createInitialState ==
    [isReady |-> FALSE, isPlaying |-> FALSE, isMuted |-> FALSE, currentSpeed |-> 100,
     previousVolume |-> 100, currentTime |-> 0, duration |-> 0,
     hasTrackedView |-> FALSE, hasTrackedPlay |-> FALSE, hasTrackedComplete |-> FALSE]

\* ------------------------------------------------------- fractions and time
Ms(seconds) == seconds * 1000
FracLess(a, b) == a[1] * b[2] < b[1] * a[2]
\* Math.min(a, b) and Math.max(a, b) on fractions.
FracMin(a, b) == IF FracLess(b, a) THEN b ELSE a
FracMax(a, b) == IF FracLess(a, b) THEN b ELSE a
\* A clamp that bounds progress from above only.
ClampProgress_upperOnly(progress) == FracMin(<<1, 1>>, progress)

\* Math.max(0, Math.min(1, progress))
ClampProgress(progress) == FracMax(<<0, 1>>, FracMin(<<1, 1>>, progress))
\* A clamp of the volume that has no lower bound.
ClampVolume_upperOnly(volume) == Min(100, volume)

\* Math.max(0, Math.min(1, volume)), volume in hundredths
ClampVolume(volume) == Max(0, Min(100, volume))

\* --------------------------------------------------------------- the world
\* The handlers below are functions from world to world: a world is the record of
\* the variables a handler may write.  An action takes the current world with the
\* call as the trace's first entry, applies the handler and commits the result.
World(call) ==
    [options |-> options, state |-> state, wavesurfer |-> wavesurfer, engine |-> engine,
     cleanupFns |-> cleanupFns, plugins |-> plugins, plug |-> plug,
     methods |-> methods, keydown |-> keydown, container |-> container,
     controls |-> controls, announcerElement |-> announcerElement,
     bodyAnnouncers |-> bodyAnnouncers, region |-> region, trace |-> <<call>>]

Commit(w) ==
    /\ options' = w.options
    /\ state' = w.state
    /\ wavesurfer' = w.wavesurfer
    /\ engine' = w.engine
    /\ cleanupFns' = w.cleanupFns
    /\ plugins' = w.plugins
    /\ plug' = w.plug
    /\ methods' = w.methods
    /\ keydown' = w.keydown
    /\ container' = w.container
    /\ controls' = w.controls
    /\ announcerElement' = w.announcerElement
    /\ bodyAnnouncers' = w.bodyAnnouncers
    /\ region' = w.region
    /\ trace' = w.trace

Emit(w, e) == [w EXCEPT !.trace = Append(@, e)]

\* ---------------------------------------------------------------- announcer
\* A getAnnouncer that creates an element on every call.
getAnnouncer_alwaysCreates(w) ==
    [w EXCEPT !.bodyAnnouncers = @ + 1, !.announcerElement = "attached"]

\* getAnnouncer(): reuse the cached element if it is still in the body, else adopt
\* the element with the announcer id, else create one and append it to the body.
getAnnouncer(w) ==
    IF w.announcerElement = "attached" THEN w
    ELSE IF w.bodyAnnouncers = 0
    THEN [w EXCEPT !.bodyAnnouncers = 1, !.announcerElement = "attached"]
    ELSE [w EXCEPT !.announcerElement = "attached"]

\* The announcer's text and the deferred callbacks of announceToScreenReader:
\* `frames` are the messages whose requestAnimationFrame callback has not run,
\* `timers` those whose 50 ms timer has not fired, both oldest first.  `timing` says
\* whether the page's frames and timers are followed at all; where they are not,
\* the region is left out of the state.
Region(timing) == [timing |-> timing, text |-> "", frames |-> <<>>, timers |-> <<>>]

\* announcer.textContent = ''; requestAnimationFrame(() => setTimeout(..., 50))
announceToScreenReader(w, message) ==
    LET w1 == Emit(getAnnouncer(w), <<"announce", message>>)
    IN  IF w.region.timing
        THEN [w1 EXCEPT !.region.text = "", !.region.frames = Append(@, message)]
        ELSE w1

\* document.querySelectorAll('.wc-audio-player'): player-bearing elements in the page.
PlayerElementsInDocument(w) ==
    {q \in Players : w.container[q].inDocument /\ w.container[q].playerClass}

cleanupAnnouncer(w) ==
    IF w.announcerElement = "attached" /\ PlayerElementsInDocument(w) = {}
    THEN [w EXCEPT !.bodyAnnouncers = @ - 1, !.announcerElement = "null"]
    ELSE w

\* ----------------------------------------------------- derived player config
speedConfig(w, p) == normalizeSpeedConfig(MergedFeature(w.options[p].speed))
skipConfig(w, p) == normalizeSkipConfig(MergedFeature(w.options[p].skip))

\* ------------------------------------------------------------ player methods
\* The methods of the object literal `player`, as written in createPlayer.  Each is
\* the identity on the world when the closure variable `wavesurfer` is null, except
\* for what it writes before or outside the optional call.
play(w, p) == IF w.wavesurfer[p] THEN Emit(w, <<"ws.play", p>>) ELSE w

pause(w, p) == IF w.wavesurfer[p] THEN Emit(w, <<"ws.pause", p>>) ELSE w

playPause(w, p) == IF w.wavesurfer[p] THEN Emit(w, <<"ws.playPause", p>>) ELSE w

\* wavesurfer.seekTo(progress) moves the engine to progress * duration.
seekTo(w, p, progress) ==
    IF w.wavesurfer[p]
    THEN LET c == ClampProgress(progress)
         IN  [Emit(w, <<"ws.seekTo", p, c[1], c[2]>>) EXCEPT
                 !.engine[p].time = (w.engine[p].duration * c[1]) \div c[2]]
    ELSE w

\* wavesurfer?.getDuration() || 0 and wavesurfer?.getCurrentTime() || 0
getDuration(w, p) == IF w.wavesurfer[p] THEN w.engine[p].duration ELSE 0
getCurrentTime(w, p) == IF w.wavesurfer[p] THEN w.engine[p].time ELSE 0

seekToTime(w, p, seconds) ==
    LET duration == getDuration(w, p)
    IN  IF duration > 0 THEN seekTo(w, p, <<Ms(seconds), duration>>) ELSE w

\* A skipForward that always skips the configured seconds, whatever its argument.
skipForward_ignoresArgument(w, p, seconds) ==
    LET current == getCurrentTime(w, p)
        duration == getDuration(w, p)
        newTime == Min(duration, current + Ms(skipConfig(w, p).seconds))
    IN  IF duration > 0 THEN seekTo(w, p, <<newTime, duration>>) ELSE w

\* A skipForward without the duration guard.
skipForward_unguarded(w, p, seconds) ==
    LET skipAmount == IF seconds = <<>> THEN skipConfig(w, p).seconds ELSE seconds[1]
        current == getCurrentTime(w, p)
        duration == getDuration(w, p)
        newTime == Min(duration, current + Ms(skipAmount))
    IN  seekTo(w, p, <<newTime, duration>>)

\* seconds is <<>> when the argument is omitted: seconds ?? skipConfig.seconds
skipForward(w, p, seconds) ==
    LET skipAmount == IF seconds = <<>> THEN skipConfig(w, p).seconds ELSE seconds[1]
        current == getCurrentTime(w, p)
        duration == getDuration(w, p)
        newTime == Min(duration, current + Ms(skipAmount))
    IN  IF duration > 0 THEN seekTo(w, p, <<newTime, duration>>) ELSE w

skipBack(w, p, seconds) ==
    LET skipAmount == IF seconds = <<>> THEN skipConfig(w, p).seconds ELSE seconds[1]
        current == getCurrentTime(w, p)
        duration == getDuration(w, p)
        newTime == Max(0, current - Ms(skipAmount))
    IN  IF duration > 0 THEN seekTo(w, p, <<newTime, duration>>) ELSE w

setSpeed(w, p, speed) ==
    LET w1 == [w EXCEPT !.state[p].currentSpeed = speed]
    IN  IF w.wavesurfer[p]
        THEN [Emit(w1, <<"ws.setPlaybackRate", p, speed>>) EXCEPT !.engine[p].rate = speed]
        ELSE w1

\* track(): the plugin's tracker when it has one, else the development logger.
track(w, id, eventName, value) ==
    IF w.plug[id].tracker
    THEN Emit(w, <<"track", id, eventName, value>>)
    ELSE Emit(w, <<"devLog", id, eventName, value>>)

\* player.setSpeed as currently bound on the live object: the n outermost wrappers the
\* plugins installed, each calling the implementation bound before it, then tracking.
RECURSIVE player_setSpeed_depth(_, _, _, _)
player_setSpeed_depth(w, p, n, speed) ==
    IF n = 0 THEN setSpeed(w, p, speed)
    ELSE track(player_setSpeed_depth(w, p, n - 1, speed),
               w.methods[p].setSpeed[n], "speed_change", speed)

\* A dispatch that runs only the last wrapper installed, around the original.
player_setSpeed_lastOnly(w, p, speed) ==
    IF w.methods[p].setSpeed = <<>> THEN setSpeed(w, p, speed)
    ELSE track(setSpeed(w, p, speed),
               w.methods[p].setSpeed[Len(w.methods[p].setSpeed)], "speed_change", speed)

player_setSpeed(w, p, speed) ==
    player_setSpeed_depth(w, p, Len(w.methods[p].setSpeed), speed)

\* track('skip_forward', { seconds: seconds || 15 })
SkipTracked(seconds) == IF TruthyNum(seconds) THEN seconds[1] ELSE 15

RECURSIVE player_skipForward_depth(_, _, _, _)
player_skipForward_depth(w, p, n, seconds) ==
    IF n = 0 THEN skipForward(w, p, seconds)
    ELSE track(player_skipForward_depth(w, p, n - 1, seconds),
               w.methods[p].skipForward[n], "skip_forward", SkipTracked(seconds))

player_skipForward(w, p, seconds) ==
    player_skipForward_depth(w, p, Len(w.methods[p].skipForward), seconds)

RECURSIVE player_skipBack_depth(_, _, _, _)
player_skipBack_depth(w, p, n, seconds) ==
    IF n = 0 THEN skipBack(w, p, seconds)
    ELSE track(player_skipBack_depth(w, p, n - 1, seconds),
               w.methods[p].skipBack[n], "skip_back", SkipTracked(seconds))

player_skipBack(w, p, seconds) ==
    player_skipBack_depth(w, p, Len(w.methods[p].skipBack), seconds)

\* An advance that stops at the last option instead of wrapping.
NextIndex_noWrap(opts, current) == Min(IndexOf(opts, current) + 1, Len(opts) - 1)

\* (currentIndex + 1) % options.length
NextIndex(opts, current) == (IndexOf(opts, current) + 1) % Len(opts)

\* cycleSpeed calls this.setSpeed: the method bound on the live object.
\* A cycleSpeed that calls the original setSpeed, not the one bound on the player.
cycleSpeed_bypassesWrappers(w, p) ==
    LET opts == speedConfig(w, p).options
    IN  setSpeed(w, p, At(opts, NextIndex(opts, w.state[p].currentSpeed)))

cycleSpeed(w, p) ==
    LET opts == speedConfig(w, p).options
    IN  player_setSpeed(w, p, At(opts, NextIndex(opts, w.state[p].currentSpeed)))

setVolume(w, p, volume) ==
    LET clamped == ClampVolume(volume)
        w1 == IF w.wavesurfer[p]
              THEN [Emit(w, <<"ws.setVolume", p, clamped>>) EXCEPT
                       !.engine[p].volume = clamped]
              ELSE w
    IN  IF clamped > 0
        THEN [w1 EXCEPT !.state[p].previousVolume = clamped, !.state[p].isMuted = FALSE]
        ELSE w1

\* The volume read when muting, without the fallback to 1.
VolumeAtMute_noFallback(w, p) == IF w.wavesurfer[p] THEN w.engine[p].volume ELSE 0

\* wavesurfer?.getVolume() || 1
VolumeAtMute(w, p) ==
    IF w.wavesurfer[p] /\ w.engine[p].volume # 0 THEN w.engine[p].volume ELSE 100

\* The engine's getVolume() call made when muting, recorded with what it returned.
ReadVolume(w, p) ==
    IF w.wavesurfer[p] THEN Emit(w, <<"ws.getVolume", p, w.engine[p].volume>>) ELSE w

toggleMute(w, p) ==
    IF w.state[p].isMuted
    THEN LET w1 == IF w.wavesurfer[p]
                   THEN [Emit(w, <<"ws.setVolume", p, w.state[p].previousVolume>>) EXCEPT
                            !.engine[p].volume = w.state[p].previousVolume]
                   ELSE w
         IN  announceToScreenReader([w1 EXCEPT !.state[p].isMuted = FALSE], "Unmuted")
    ELSE LET w1 == [ReadVolume(w, p) EXCEPT !.state[p].previousVolume = VolumeAtMute(w, p)]
             w2 == IF w.wavesurfer[p]
                   THEN [Emit(w1, <<"ws.setVolume", p, 0>>) EXCEPT !.engine[p].volume = 0]
                   ELSE w1
         IN  announceToScreenReader([w2 EXCEPT !.state[p].isMuted = TRUE], "Muted")

\* ------------------------------------------------------------------ plugins
\* normalizeAnalyticsConfig.  A config is [kind, enabled, tracker, trackSpeedChange,
\* trackSkip, trackEvents]: `tracker` says whether a custom tracker is given, the
\* track flags are optional booleans (trackEvents stands for trackView, trackPlay,
\* trackPause and trackComplete together).
DEFAULT_ANALYTICS_CONFIG ==
    [enabled |-> TRUE, tracker |-> FALSE, trackView |-> TRUE, trackPlay |-> TRUE,
     trackPause |-> TRUE, trackComplete |-> TRUE, trackSpeedChange |-> TRUE,
     trackSkip |-> TRUE]

OptOr(opt, default) == IF opt = <<>> THEN default ELSE opt[1]

normalizeAnalyticsConfig(config) ==
    IF config.kind = "false"
    THEN [DEFAULT_ANALYTICS_CONFIG EXCEPT !.enabled = FALSE]
    ELSE IF config.kind \in {"true", "undefined"}
    THEN DEFAULT_ANALYTICS_CONFIG
    ELSE [enabled |-> config.enabled # "false",
          tracker |-> config.tracker,
          trackView |-> OptOr(config.trackEvents, TRUE),
          trackPlay |-> OptOr(config.trackEvents, TRUE),
          trackPause |-> OptOr(config.trackEvents, TRUE),
          trackComplete |-> OptOr(config.trackEvents, TRUE),
          trackSpeedChange |-> OptOr(config.trackSpeedChange, TRUE),
          trackSkip |-> OptOr(config.trackSkip, TRUE)]

AnalyticsShorthand(kind) ==
    [kind |-> kind, enabled |-> "absent", tracker |-> FALSE, trackEvents |-> <<>>,
     trackSpeedChange |-> <<>>, trackSkip |-> <<>>]
AnalyticsObject(enabled, tracker, trackEvents, trackSpeedChange, trackSkip) ==
    [kind |-> "object", enabled |-> enabled, tracker |-> tracker,
     trackEvents |-> trackEvents, trackSpeedChange |-> trackSpeedChange,
     trackSkip |-> trackSkip]

\* The closure state of a plugin instance; kind "none" is an instance not made yet.
NoPlugin ==
    [kind |-> "none", config |-> DEFAULT_ANALYTICS_CONFIG, tracker |-> FALSE,
     hasTrackedView |-> FALSE, hasTrackedPlay |-> FALSE, hasTrackedComplete |-> FALSE,
     onPlay |-> FALSE, onPause |-> FALSE, onFinish |-> FALSE,
     cleanup |-> FALSE, toggleListener |-> FALSE,
     initThrows |-> FALSE, destroyThrows |-> FALSE]

\* analyticsPlugin(config): the instance before init.
analyticsPlugin(config) ==
    [NoPlugin EXCEPT !.kind = "analytics", !.config = normalizeAnalyticsConfig(config)]

\* transcriptPlugin(): the instance before init.
transcriptPlugin == [NoPlugin EXCEPT !.kind = "transcript"]

\* A plugin the host wrote to the WCAudioPlayerPlugin interface, { name, init,
\* destroy }: all that is known of it is whether its init and its destroy throw.
customPlugin(initThrows, destroyThrows) ==
    [NoPlugin EXCEPT !.kind = "custom", !.initThrows = initThrows,
                     !.destroyThrows = destroyThrows]

\* An exception is propagating: the last thing that happened is a throw that
\* nothing caught.
Thrown(w) == w.trace[Len(w.trace)][1] = "throw"

Handler(ev, who, id) == [ev |-> ev, who |-> who, id |-> id]

\* wavesurfer.on(ev, handler), when the player has an engine.
On(w, p, ev, who, id) ==
    [w EXCEPT !.engine[p].handlers = Append(@, Handler(ev, who, id))]

\* analyticsPlugin(...).init(player); pageTracker: detectTracker() finds a tracker.
analyticsInit(w, p, id, pageTracker) ==
    LET cfg == w.plug[id].config
        w1 == [w EXCEPT !.plug[id].tracker = cfg.tracker \/ pageTracker]
        w2 == IF cfg.trackView /\ ~w1.plug[id].hasTrackedView
              THEN track([w1 EXCEPT !.plug[id].hasTrackedView = TRUE], id,
                         "episode_view", 0)
              ELSE w1
        w3 == IF cfg.trackPlay /\ w2.wavesurfer[p]
              THEN On([w2 EXCEPT !.plug[id].onPlay = TRUE], p, "play", "analytics", id)
              ELSE w2
        w4 == IF cfg.trackPause /\ w3.wavesurfer[p]
              THEN On([w3 EXCEPT !.plug[id].onPause = TRUE], p, "pause", "analytics", id)
              ELSE w3
        w5 == IF cfg.trackComplete /\ w4.wavesurfer[p]
              THEN On([w4 EXCEPT !.plug[id].onFinish = TRUE], p, "finish", "analytics", id)
              ELSE w4
        w6 == IF cfg.trackSpeedChange
              THEN [w5 EXCEPT !.methods[p].setSpeed = Append(@, id)]
              ELSE w5
        w7 == IF cfg.trackSkip
              THEN [w6 EXCEPT !.methods[p].skipForward = Append(@, id),
                              !.methods[p].skipBack = Append(@, id)]
              ELSE w6
    IN  IF ~cfg.enabled THEN w ELSE w7

\* transcriptPlugin().init(player); found: the page holds a transcript section to wrap.
transcriptInit(w, id, found) ==
    IF found
    THEN [w EXCEPT !.plug[id].cleanup = TRUE, !.plug[id].toggleListener = TRUE]
    ELSE w

\* plugin.destroy?.()
pluginDestroy(w, id) ==
    LET w1 == Emit(w, <<"plugin.destroy", id>>)
    IN  IF w.plug[id].kind = "analytics"
        THEN [w1 EXCEPT !.plug[id].onPlay = FALSE, !.plug[id].onPause = FALSE,
                        !.plug[id].onFinish = FALSE, !.plug[id].tracker = FALSE]
        ELSE IF w.plug[id].kind = "custom"
        THEN IF w.plug[id].destroyThrows
             THEN Emit(w1, <<"throw", id, "plugin.destroy">>)
             ELSE w1
        ELSE [w1 EXCEPT !.plug[id].toggleListener =
                            IF w.plug[id].cleanup THEN FALSE ELSE @,
                        !.plug[id].cleanup = FALSE]

\* use(plugin): plugins.push(plugin); plugin.init(player)
use(w, p, id, arg) ==
    LET w1 == Emit([w EXCEPT !.plugins[p] = Append(@, id)], <<"plugin.init", id, p>>)
    IN  IF w.plug[id].kind = "analytics"
        THEN analyticsInit(w1, p, id, arg)
        ELSE IF w.plug[id].kind = "custom"
        THEN IF w.plug[id].initThrows
             THEN Emit(w1, <<"throw", id, "plugin.init">>)
             ELSE w1
        ELSE transcriptInit(w1, id, arg)

\* ------------------------------------------------------------------ destroy
\* A cleanup callback: the detach operation setupKeyboardShortcuts returned, either
\* the listener's remover or, for a disabled config, a no-op.
RunCleanup(w, p, fn) ==
    IF fn = "removeKeydown"
    THEN [w EXCEPT !.keydown = SelectSeq(@, LAMBDA q : q # p)]
    ELSE w

\* cleanupFns.forEach((fn) => fn()), from the i-th on
RECURSIVE RunCleanups(_, _, _)
RunCleanups(w, p, i) ==
    IF i > Len(w.cleanupFns[p]) THEN w
    ELSE RunCleanups(RunCleanup(Emit(w, <<"cleanup", p, i>>), p, w.cleanupFns[p][i]),
                     p, i + 1)

\* plugins.forEach((plugin) => plugin.destroy?.()), from the i-th on; a destroy that
\* throws ends the forEach.
RECURSIVE DestroyPlugins(_, _, _)
DestroyPlugins(w, p, i) ==
    IF i > Len(w.plugins[p]) THEN w
    ELSE LET w1 == pluginDestroy(w, w.plugins[p][i])
         IN  IF Thrown(w1) THEN w1 ELSE DestroyPlugins(w1, p, i + 1)

\* destroy() that destroys the plugins before it runs the cleanup callbacks.
destroy_pluginsFirst(w, p) ==
    LET w1 == DestroyPlugins(w, p, 1)
        w2 == RunCleanups(w1, p, 1)
        w3 == IF w2.wavesurfer[p]
              THEN [Emit(w2, <<"ws.destroy", p>>) EXCEPT !.engine[p].status = "destroyed"]
              ELSE w2
        w4 == [w3 EXCEPT !.wavesurfer[p] = FALSE]
        w5 == cleanupAnnouncer(Emit(w4, <<"cleanupAnnouncer", p>>))
        w6 == [Emit(w5, <<"classList.remove", p>>) EXCEPT !.container[p].initialized = FALSE]
    IN  Emit(w6, <<"onError", p, "Player destroyed">>)

\* destroy() that leaves the closure variable pointing at the destroyed engine.
destroy_keepsReference(w, p) ==
    LET w1 == RunCleanups(w, p, 1)
        w2 == DestroyPlugins(w1, p, 1)
        w3 == IF w2.wavesurfer[p]
              THEN [Emit(w2, <<"ws.destroy", p>>) EXCEPT !.engine[p].status = "destroyed"]
              ELSE w2
        w5 == cleanupAnnouncer(Emit(w3, <<"cleanupAnnouncer", p>>))
        w6 == [Emit(w5, <<"classList.remove", p>>) EXCEPT !.container[p].initialized = FALSE]
    IN  Emit(w6, <<"onError", p, "Player destroyed">>)

\* destroy() has no try: an exception from a plugin's destroy() ends it there.
destroy(w, p) ==
    LET w1 == RunCleanups(w, p, 1)
        w2 == DestroyPlugins(w1, p, 1)
        w3 == IF w2.wavesurfer[p]
              THEN [Emit(w2, <<"ws.destroy", p>>) EXCEPT !.engine[p].status = "destroyed"]
              ELSE w2
        w4 == [w3 EXCEPT !.wavesurfer[p] = FALSE]
        w5 == cleanupAnnouncer(Emit(w4, <<"cleanupAnnouncer", p>>))
        w6 == [Emit(w5, <<"classList.remove", p>>) EXCEPT !.container[p].initialized = FALSE]
    IN  IF Thrown(w2) THEN w2 ELSE Emit(w6, <<"onError", p, "Player destroyed">>)

\* ------------------------------------------------------------ initialization
NoEngine ==
    [status |-> "none", volume |-> 100, rate |-> 100, time |-> 0, duration |-> 0,
     handlers |-> <<>>]

\* setupWavesurferEvents: the seven core handlers, in the order they are registered.
CoreHandlers ==
    <<Handler("ready", "core", 0), Handler("play", "core", 0),
      Handler("pause", "core", 0), Handler("finish", "core", 0),
      Handler("seeking", "core", 0), Handler("audioprocess", "core", 0),
      Handler("error", "core", 0)>>

\* WaveSurfer.create(...) and setupWavesurferEvents.  With peaks the engine is given
\* the duration up front (peaksData.length / peaksData.sample_rate), else it learns
\* it when the audio is ready.
CreateEngine(w, p, withPeaks) ==
    [Emit(w, <<"WaveSurfer.create", p, IF withPeaks THEN "peaks" ELSE "url">>) EXCEPT
        !.wavesurfer[p] = TRUE,
        !.engine[p] = [NoEngine EXCEPT
                          !.status = "live",
                          !.duration = IF withPeaks THEN w.options[p].audioDuration ELSE 0,
                          !.handlers = CoreHandlers]]

\* bindExistingElements, for the elements queryPlayerElements found in the container.
bindExistingElements(w, p) ==
    LET m == w.options[p].markup
        w1 == IF m.playButton
              THEN LET b == [w EXCEPT !.controls[p].play = TRUE]
                   IN  IF b.wavesurfer[p]
                       THEN On(On(b, p, "play", "playButton", 0),
                               p, "pause", "playButton", 0)
                       ELSE b
              ELSE w
        w2 == IF m.timeDisplay /\ w1.wavesurfer[p]
              THEN On(On(On(w1, p, "audioprocess", "timeDisplay", 0),
                         p, "ready", "timeDisplay", 0),
                      p, "seeking", "timeDisplay", 0)
              ELSE w1
        w3 == IF m.speedButton /\ speedConfig(w, p).enabled
              THEN [w2 EXCEPT !.controls[p].speed = TRUE]
              ELSE w2
    IN  IF m.skipButtons /\ skipConfig(w, p).enabled
        THEN [w3 EXCEPT !.controls[p].skip = TRUE]
        ELSE w3

\* A setupKeyboardShortcuts that attaches the listener whatever the config says.
setupKeyboardShortcuts_alwaysAttaches(w, p) ==
    [Emit(w, <<"addEventListener", p>>) EXCEPT
        !.keydown = Append(@, p),
        !.cleanupFns[p] = Append(@, "removeKeydown")]

\* setupKeyboardShortcuts(player, features.keyboard), and cleanupFns.push(cleanup)
setupKeyboardShortcuts(w, p) ==
    IF normalizeKeyboardConfig(MergedFeature(w.options[p].keyboard)).enabled
    THEN [Emit(w, <<"addEventListener", p>>) EXCEPT
             !.keydown = Append(@, p),
             !.cleanupFns[p] = Append(@, "removeKeydown")]
    ELSE [w EXCEPT !.cleanupFns[p] = Append(@, "noop")]

\* initializePlayer from the engine's creation to its end (lines 295-329).
FinishInitialize(w, p, withPeaks) ==
    LET w1 == bindExistingElements(CreateEngine(w, p, withPeaks), p)
        w2 == IF TruthyFeature(MergedFeature(w.options[p].keyboard))
              THEN setupKeyboardShortcuts(w1, p)
              ELSE w1
    IN  [Emit(w2, <<"classList.add", p>>) EXCEPT !.container[p].initialized = TRUE]

\* ------------------------------------------------------------- engine events
\* Math.round(player.getCurrentTime()), in seconds
RoundedSeconds(ms) == (ms + 500) \div 1000

\* The core handlers of setupWavesurferEvents.
coreReady(w, p) ==
    Emit([w EXCEPT !.state[p].isReady = TRUE,
                   !.state[p].duration = w.engine[p].duration],
         <<"onReady", p>>)

corePlay(w, p) == Emit([w EXCEPT !.state[p].isPlaying = TRUE], <<"onPlay", p>>)

\* A pause handler that calls onPause before it updates the state.
corePause_callbackFirst(w, p) ==
    Emit([w EXCEPT !.state[p].isPlaying = FALSE,
                   !.state[p].currentTime = w.engine[p].time],
         <<"onPause", p, w.state[p].currentTime>>)

corePause(w, p) ==
    Emit([w EXCEPT !.state[p].isPlaying = FALSE,
                   !.state[p].currentTime = w.engine[p].time],
         <<"onPause", p, w.engine[p].time>>)

\* A finish handler that leaves isPlaying as it is.
coreFinish_keepsPlaying(w, p) == Emit(w, <<"onFinish", p>>)

coreFinish(w, p) == Emit([w EXCEPT !.state[p].isPlaying = FALSE], <<"onFinish", p>>)

coreSeeking(w, p) ==
    Emit([w EXCEPT !.state[p].currentTime = w.engine[p].time],
         <<"onSeek", p, w.engine[p].time>>)

coreAudioprocess(w, p) == [w EXCEPT !.state[p].currentTime = w.engine[p].time]

\* An error handler that also takes the player back to not ready.
coreError_resetsReady(w, p) ==
    Emit([w EXCEPT !.state[p].isReady = FALSE], <<"onError", p, "engine error">>)

coreError(w, p) == Emit(w, <<"onError", p, "engine error">>)

\* Play button handlers that both show the playing state.
playButtonEvent_alwaysPlaying(w, p, ev) == [w EXCEPT !.controls[p].pressed = TRUE]

\* The play button's onPlay and onPause handlers (bindPlayButton).
playButtonEvent(w, p, ev) == [w EXCEPT !.controls[p].pressed = (ev = "play")]

\* The analytics plugin's onPlay, onPause and onFinish handlers.
\* An onPlay handler that tracks every play.
analyticsOnPlay_everyPlay(w, id) ==
    track([w EXCEPT !.plug[id].hasTrackedPlay = TRUE], id, "play", 0)

analyticsOnPlay(w, id) ==
    IF ~w.plug[id].hasTrackedPlay
    THEN track([w EXCEPT !.plug[id].hasTrackedPlay = TRUE], id, "play", 0)
    ELSE w

analyticsOnPause(w, p, id) ==
    track(w, id, "pause", RoundedSeconds(getCurrentTime(w, p)))

analyticsOnFinish(w, id) ==
    IF ~w.plug[id].hasTrackedComplete
    THEN track([w EXCEPT !.plug[id].hasTrackedComplete = TRUE], id, "complete", 0)
    ELSE w

\* One registered handler receiving its event.
Handle(w, p, h) ==
    IF h.who = "core" THEN
        CASE h.ev = "ready" -> coreReady(w, p)
          [] h.ev = "play" -> corePlay(w, p)
          [] h.ev = "pause" -> corePause(w, p)
          [] h.ev = "finish" -> coreFinish(w, p)
          [] h.ev = "seeking" -> coreSeeking(w, p)
          [] h.ev = "audioprocess" -> coreAudioprocess(w, p)
          [] OTHER -> coreError(w, p)
    ELSE IF h.who = "playButton" THEN playButtonEvent(w, p, h.ev)
    ELSE IF h.who = "analytics" THEN
        CASE h.ev = "play" -> analyticsOnPlay(w, h.id)
          [] h.ev = "pause" -> analyticsOnPause(w, p, h.id)
          [] OTHER -> analyticsOnFinish(w, h.id)
    ELSE w

\* The engine emits ev: the handlers registered for it run in registration order.
RECURSIVE Dispatch(_, _, _, _)
Dispatch(w, p, ev, i) ==
    IF i > Len(w.engine[p].handlers) THEN w
    ELSE LET h == w.engine[p].handlers[i]
         IN  Dispatch(IF h.ev = ev THEN Handle(w, p, h) ELSE w, p, ev, i + 1)

\* ------------------------------------------------------------------ controls
\* A click handler that stops at the last option instead of wrapping to the first.
speedButtonClick_noWrap(w, p) ==
    LET opts == speedConfig(w, p).options
        newSpeed == At(opts, NextIndex_noWrap(opts, w.state[p].currentSpeed))
        w1 == player_setSpeed(w, p, newSpeed)
    IN  announceToScreenReader([w1 EXCEPT !.controls[p].speedLabel = newSpeed],
                               "Playback speed")

\* The speed button's click handler (bindSpeedButton).
speedButtonClick(w, p) ==
    LET opts == speedConfig(w, p).options
        newSpeed == At(opts, NextIndex(opts, w.state[p].currentSpeed))
        w1 == player_setSpeed(w, p, newSpeed)
    IN  announceToScreenReader([w1 EXCEPT !.controls[p].speedLabel = newSpeed],
                               "Playback speed")

\* The skip buttons' click handlers (bindSkipButtons).
skipBackClick(w, p) ==
    announceToScreenReader(player_skipBack(w, p, <<skipConfig(w, p).seconds>>),
                           "Skipped back")

skipForwardClick(w, p) ==
    announceToScreenReader(player_skipForward(w, p, <<skipConfig(w, p).seconds>>),
                           "Skipped forward")

\* ------------------------------------------------------------------ keyboard
\* A getSpeedOptions that ignores the caller's options.
getSpeedOptions_defaultOnly(w, p) == <<50, 75, 100, 125, 150, 175, 200>>

\* getSpeedOptions(player): read from the caller's raw options.
getSpeedOptions(w, p) ==
    IF w.options[p].speed.kind = "object" /\ w.options[p].speed.options # <<>>
    THEN w.options[p].speed.options[1]
    ELSE <<50, 75, 100, 125, 150, 175, 200>>

\* A getSpeedIndex without the fallback to 1x.
getSpeedIndex_noFallback(w, p) ==
    IndexOf(getSpeedOptions(w, p), w.state[p].currentSpeed)

\* getSpeedIndex(player): the index of the current speed, else the index of 1x.
getSpeedIndex(w, p) ==
    LET index == IndexOf(getSpeedOptions(w, p), w.state[p].currentSpeed)
    IN  IF index >= 0 THEN index ELSE IndexOf(getSpeedOptions(w, p), 100)

\* A handleKeyDown that does not wait for the player to be ready.
handleKeyDown_ignoresReady(w, p, key) ==
    LET cfg == normalizeKeyboardConfig(MergedFeature(w.options[p].keyboard))
        currentIndex == getSpeedIndex(w, p)
    IN  IF inputFocused THEN w
        ELSE IF ~w.wavesurfer[p] THEN w
        ELSE IF key \in cfg.playPause THEN playPause(w, p)
        ELSE IF key \in cfg.skipBack THEN player_skipBack(w, p, <<>>)
        ELSE IF key \in cfg.skipForward THEN player_skipForward(w, p, <<>>)
        ELSE IF key \in cfg.speedUp
        THEN IF currentIndex < Len(getSpeedOptions(w, p)) - 1
             THEN player_setSpeed(w, p, At(getSpeedOptions(w, p), currentIndex + 1))
             ELSE w
        ELSE IF key \in cfg.speedDown
        THEN IF currentIndex > 0
             THEN player_setSpeed(w, p, At(getSpeedOptions(w, p), currentIndex - 1))
             ELSE w
        ELSE IF key \in cfg.mute THEN toggleMute(w, p)
        ELSE IF key \in cfg.jumpStart
        THEN announceToScreenReader(seekTo(w, p, <<0, 1>>), "Jumped to start")
        ELSE IF key \in cfg.jumpEnd
        THEN announceToScreenReader(pause(seekTo(w, p, <<999, 1000>>), p), "Jumped to end")
        ELSE w

\* handleKeyDown(e) of player p's listener.
handleKeyDown(w, p, key) ==
    LET cfg == normalizeKeyboardConfig(MergedFeature(w.options[p].keyboard))
        currentIndex == getSpeedIndex(w, p)
    IN  IF inputFocused THEN w
        ELSE IF ~w.wavesurfer[p] \/ ~w.state[p].isReady THEN w
        ELSE IF key \in cfg.playPause THEN playPause(w, p)
        ELSE IF key \in cfg.skipBack THEN player_skipBack(w, p, <<>>)
        ELSE IF key \in cfg.skipForward THEN player_skipForward(w, p, <<>>)
        ELSE IF key \in cfg.speedUp
        THEN IF currentIndex < Len(getSpeedOptions(w, p)) - 1
             THEN player_setSpeed(w, p, At(getSpeedOptions(w, p), currentIndex + 1))
             ELSE w
        ELSE IF key \in cfg.speedDown
        THEN IF currentIndex > 0
             THEN player_setSpeed(w, p, At(getSpeedOptions(w, p), currentIndex - 1))
             ELSE w
        ELSE IF key \in cfg.mute THEN toggleMute(w, p)
        ELSE IF key \in cfg.jumpStart
        THEN announceToScreenReader(seekTo(w, p, <<0, 1>>), "Jumped to start")
        ELSE IF key \in cfg.jumpEnd
        THEN announceToScreenReader(pause(seekTo(w, p, <<999, 1000>>), p), "Jumped to end")
        ELSE w

\* A keydown on the document: the attached listeners run in the order attached.
RECURSIVE DispatchKey(_, _, _)
DispatchKey(w, key, i) ==
    IF i > Len(w.keydown) THEN w
    ELSE DispatchKey(handleKeyDown(w, w.keydown[i], key), key, i + 1)

\* ------------------------------------------------------------------- inputs
\* The caller's options together with what the host page gives the player: the
\* audio file's duration and the control elements present in the container.
Options(peaksUrl, speed, skip, keyboard, audioDuration, markup) ==
    [peaksUrl |-> peaksUrl, speed |-> speed, skip |-> skip, keyboard |-> keyboard,
     audioDuration |-> audioDuration, markup |-> markup]

FullMarkup ==
    [playButton |-> TRUE, timeDisplay |-> TRUE, speedButton |-> TRUE, skipButtons |-> TRUE]
NoMarkup ==
    [playButton |-> FALSE, timeDisplay |-> FALSE, speedButton |-> FALSE,
     skipButtons |-> FALSE]

NoOptions ==
    Options(FALSE, SpeedShorthand("absent"), SkipShorthand("absent"),
            KeyboardShorthand("absent"), 0, NoMarkup)

NoControls ==
    [play |-> FALSE, speed |-> FALSE, skip |-> FALSE, pressed |-> FALSE, speedLabel |-> 0]

\* --------------------------------------------------------------------- Init
\* The page before any player is constructed.  Each player's container is in the
\* document; whether it carries the class wc-audio-player is the host's markup.
InitPageWith(playerClass, timing) ==
    /\ phase = [p \in Players |-> "absent"]
    /\ options = [p \in Players |-> NoOptions]
    /\ state = [p \in Players |-> createInitialState]
    /\ wavesurfer = [p \in Players |-> FALSE]
    /\ engine = [p \in Players |-> NoEngine]
    /\ cleanupFns = [p \in Players |-> <<>>]
    /\ plugins = [p \in Players |-> <<>>]
    /\ plug = [id \in PluginIds |-> NoPlugin]
    /\ methods = [p \in Players |->
                     [setSpeed |-> <<>>, skipForward |-> <<>>, skipBack |-> <<>>]]
    /\ keydown = <<>>
    /\ container = [p \in Players |->
                        [inDocument |-> TRUE, playerClass |-> playerClass,
                         initialized |-> FALSE]]
    /\ controls = [p \in Players |-> NoControls]
    /\ announcerElement = "null"
    /\ bodyAnnouncers = 0
    /\ region = Region(timing)
    /\ inputFocused = FALSE
    /\ destroyCalls = [p \in Players |-> 0]
    /\ trace = <<>>

InitPage(playerClass) == InitPageWith(playerClass, FALSE)

Init == \E playerClass \in BOOLEAN : InitPage(playerClass)

\* The page of the README's markup: the containers carry the class wc-audio-player.
InitSolo == InitPage(TRUE)

\* The same page with the announcer's frames and timers followed.
InitTimed == InitPageWith(TRUE, TRUE)

\* ------------------------------------------------------------------ actions
\* createPlayer(options) with a container that resolves.  Without a peaksUrl
\* initializePlayer has no await and runs to its end before createPlayer returns;
\* with one it suspends at the fetch.
CreatePlayer(p, opts) ==
    /\ phase[p] = "absent"
    /\ LET w0 == World(<<"createPlayer", p>>)
           w1 == [w0 EXCEPT !.options[p] = opts]
           w2 == [w1 EXCEPT !.state[p] = [createInitialState EXCEPT
                                !.currentSpeed = speedConfig(w1, p).defaultSpeed]]
       IN  IF opts.peaksUrl
           THEN /\ Commit(w2)
                /\ phase' = [phase EXCEPT ![p] = "fetching"]
           ELSE /\ Commit(FinishInitialize(w2, p, FALSE))
                /\ phase' = [phase EXCEPT ![p] = "bound"]
    /\ UNCHANGED <<inputFocused, destroyCalls>>

\* A createPlayer that does not test what resolveContainer returned.
CreatePlayerUnresolved_unchecked(p, opts) ==
    /\ phase[p] = "absent"
    /\ LET w0 == World(<<"createPlayer", p, "unresolved">>)
           w1 == [w0 EXCEPT !.options[p] = opts]
       IN  Commit(FinishInitialize(w1, p, FALSE))
    /\ phase' = [phase EXCEPT ![p] = "bound"]
    /\ UNCHANGED <<inputFocused, destroyCalls>>

\* createPlayer(options) with a container selector that matches no element:
\* resolveContainer returns null and createPlayer throws before anything else.
CreatePlayerUnresolved(p, opts) ==
    /\ phase[p] = "absent"
    /\ Commit(Emit(World(<<"createPlayer", p, "unresolved">>),
                   <<"throw", p, "WCAudioPlayer: Container element not found">>))
    /\ UNCHANGED <<phase, inputFocused, destroyCalls>>

\* A settling of loadPeaks that reports a failed fetch to options.onError.
PeaksFetchDone_failureSurfaced(p, ok) ==
    /\ phase[p] = "fetching"
    /\ LET w0 == World(<<"loadPeaks", p, IF ok THEN "ok" ELSE "failed">>)
           w1 == IF ok THEN w0 ELSE Emit(w0, <<"onError", p, "Failed to load peaks">>)
       IN  Commit(FinishInitialize(w1, p, ok))
    /\ phase' = [phase EXCEPT ![p] = "bound"]
    /\ UNCHANGED <<inputFocused, destroyCalls>>

\* loadPeaks settles and initializePlayer resumes: with the peaks when the fetch
\* succeeded, else (a warning is logged) with the audio URL alone.
PeaksFetchDone(p, ok) ==
    /\ phase[p] = "fetching"
    /\ Commit(FinishInitialize(World(<<"loadPeaks", p, IF ok THEN "ok" ELSE "failed">>),
                               p, ok))
    /\ phase' = [phase EXCEPT ![p] = "bound"]
    /\ UNCHANGED <<inputFocused, destroyCalls>>

\* player.destroy()
Destroy(p) ==
    /\ phase[p] # "absent"
    /\ destroyCalls[p] < MaxDestroys
    /\ Commit(destroy(World(<<"destroy", p>>), p))
    /\ destroyCalls' = [destroyCalls EXCEPT ![p] = @ + 1]
    /\ UNCHANGED <<phase, inputFocused>>

\* player.use(analyticsPlugin(config))
UseAnalytics(p, id, config, pageTracker) ==
    /\ phase[p] # "absent"
    /\ plug[id].kind = "none"
    /\ \A j \in PluginIds : j < id => plug[j].kind # "none"
    /\ LET w0 == World(<<"use", p, id>>)
       IN  Commit(use([w0 EXCEPT !.plug[id] = analyticsPlugin(config)], p, id, pageTracker))
    /\ UNCHANGED <<phase, inputFocused, destroyCalls>>

\* player.use(transcriptPlugin())
UseTranscript(p, id, found) ==
    /\ phase[p] # "absent"
    /\ plug[id].kind = "none"
    /\ \A j \in PluginIds : j < id => plug[j].kind # "none"
    /\ LET w0 == World(<<"use", p, id>>)
       IN  Commit(use([w0 EXCEPT !.plug[id] = transcriptPlugin], p, id, found))
    /\ UNCHANGED <<phase, inputFocused, destroyCalls>>

\* player.use(plugin) with a plugin the host wrote.
UseCustom(p, id, initThrows, destroyThrows) ==
    /\ phase[p] # "absent"
    /\ plug[id].kind = "none"
    /\ \A j \in PluginIds : j < id => plug[j].kind # "none"
    /\ LET w0 == World(<<"use", p, id>>)
       IN  Commit(use([w0 EXCEPT !.plug[id] = customPlugin(initThrows, destroyThrows)],
                      p, id, FALSE))
    /\ UNCHANGED <<phase, inputFocused, destroyCalls>>

\* A call of a public method on the player object.
Called(p, w) ==
    /\ phase[p] # "absent"
    /\ Commit(w)
    /\ UNCHANGED <<phase, inputFocused, destroyCalls>>

Play(p) == Called(p, play(World(<<"play", p>>), p))
Pause(p) == Called(p, pause(World(<<"pause", p>>), p))
PlayPause(p) == Called(p, playPause(World(<<"playPause", p>>), p))
SeekTo(p, progress) ==
    Called(p, seekTo(World(<<"seekTo", p, progress[1], progress[2]>>), p, progress))
SeekToTime(p, seconds) ==
    Called(p, seekToTime(World(<<"seekToTime", p, seconds>>), p, seconds))
SkipForward(p, seconds) ==
    Called(p, player_skipForward(World(<<"skipForward", p, seconds>>), p, seconds))
SkipBack(p, seconds) ==
    Called(p, player_skipBack(World(<<"skipBack", p, seconds>>), p, seconds))
SetSpeed(p, speed) ==
    Called(p, player_setSpeed(World(<<"setSpeed", p, speed>>), p, speed))
CycleSpeed(p) == Called(p, cycleSpeed(World(<<"cycleSpeed", p>>), p))

\* The WCAudioPlayer class: each method forwards to the same method of the instance
\* createPlayer returned, looked up on the instance when the call is made.
ClassSetSpeed(p, speed) ==
    Called(p, player_setSpeed(World(<<"WCAudioPlayer.setSpeed", p, speed>>), p, speed))
ClassCycleSpeed(p) == Called(p, cycleSpeed(World(<<"WCAudioPlayer.cycleSpeed", p>>), p))
ClassSkipForward(p, seconds) ==
    Called(p, player_skipForward(World(<<"WCAudioPlayer.skipForward", p, seconds>>),
                                 p, seconds))
ClassSkipBack(p, seconds) ==
    Called(p, player_skipBack(World(<<"WCAudioPlayer.skipBack", p, seconds>>), p, seconds))
SetVolume(p, volume) ==
    Called(p, setVolume(World(<<"setVolume", p, volume>>), p, volume))
ToggleMute(p) == Called(p, toggleMute(World(<<"toggleMute", p>>), p))
GetTimes(p) ==
    Called(p, LET w == World(<<"getCurrentTime/getDuration", p>>)
              IN  Emit(w, <<"returned", getCurrentTime(w, p), getDuration(w, p)>>))

\* The engine emits an event.  `ready` is when the engine knows the audio's
\* duration, `finish` is at the end of the audio, and an `audioprocess` reports the
\* clock having advanced (by 15 s, or to the end).
EngineEvent(p, ev) ==
    /\ engine[p].status = "live"
    /\ LET w0 == World(<<"engine", p, ev>>)
           w1 == CASE ev = "ready" ->
                        [w0 EXCEPT !.engine[p].duration = w0.options[p].audioDuration]
                   [] ev = "finish" ->
                        [w0 EXCEPT !.engine[p].time = w0.engine[p].duration]
                   [] ev = "audioprocess" ->
                        [w0 EXCEPT !.engine[p].time =
                                       Min(w0.engine[p].duration, @ + Ms(15))]
                   [] OTHER -> w0
       IN  Commit(Dispatch(w1, p, ev, 1))
    /\ UNCHANGED <<phase, inputFocused, destroyCalls>>

\* The user clicks a control element that has a click handler.
ClickPlay(p) ==
    /\ controls[p].play
    /\ Commit(playPause(World(<<"click", p, "play">>), p))
    /\ UNCHANGED <<phase, inputFocused, destroyCalls>>

ClickSpeed(p) ==
    /\ controls[p].speed
    /\ Commit(speedButtonClick(World(<<"click", p, "speed">>), p))
    /\ UNCHANGED <<phase, inputFocused, destroyCalls>>

ClickSkipBack(p) ==
    /\ controls[p].skip
    /\ Commit(skipBackClick(World(<<"click", p, "skipBack">>), p))
    /\ UNCHANGED <<phase, inputFocused, destroyCalls>>

ClickSkipForward(p) ==
    /\ controls[p].skip
    /\ Commit(skipForwardClick(World(<<"click", p, "skipForward">>), p))
    /\ UNCHANGED <<phase, inputFocused, destroyCalls>>

\* The user presses a key: a keydown event on the document.
KeyDown(key) ==
    /\ Commit(DispatchKey(World(<<"keydown", key>>), key, 1))
    /\ UNCHANGED <<phase, inputFocused, destroyCalls>>

\* Focus moves into or out of a text-entry element of the page.
Focus(b) ==
    /\ inputFocused # b
    /\ inputFocused' = b
    /\ trace' = <<<<"focus">>>>
    /\ UNCHANGED <<region, phase, options, state, wavesurfer, engine, cleanupFns, plugins, plug,
                   methods, keydown, container, controls, announcerElement,
                   bodyAnnouncers, destroyCalls>>

\* The host changes the engine's volume directly (player.wavesurfer.setVolume(v)).
HostSetVolume(p, volume) ==
    /\ wavesurfer[p]
    /\ engine[p].volume # volume
    /\ engine' = [engine EXCEPT ![p].volume = volume]
    /\ trace' = <<<<"host.setVolume", p, volume>>>>
    /\ UNCHANGED <<region, phase, options, state, wavesurfer, cleanupFns, plugins, plug,
                   methods, keydown, container, controls, announcerElement,
                   bodyAnnouncers, inputFocused, destroyCalls>>

\* The host takes a player's container out of the document.
HostRemoveContainer(p) ==
    /\ container[p].inDocument
    /\ container' = [container EXCEPT ![p].inDocument = FALSE]
    /\ trace' = <<<<"host.removeContainer", p>>>>
    /\ UNCHANGED <<region, phase, options, state, wavesurfer, engine, cleanupFns, plugins, plug,
                   methods, keydown, controls, announcerElement, bodyAnnouncers,
                   inputFocused, destroyCalls>>

\* The host (or another script) takes the announcer element out of the document; the
\* module variable still refers to it.
HostRemoveAnnouncer ==
    /\ bodyAnnouncers > 0
    /\ bodyAnnouncers' = bodyAnnouncers - 1
    /\ announcerElement' = IF announcerElement = "attached" THEN "detached"
                           ELSE announcerElement
    /\ trace' = <<<<"host.removeAnnouncer", 0>>>>
    /\ UNCHANGED <<region, phase, options, state, wavesurfer, engine, cleanupFns, plugins, plug,
                   methods, keydown, container, controls, inputFocused, destroyCalls>>

\* player.announce(message)
AnnounceMessage(p, message) ==
    /\ Len(region.frames) + Len(region.timers) < MaxPending
    /\ Called(p, announceToScreenReader(World(<<"announce", p, message>>), message))

\* The next paint frame: the requestAnimationFrame callbacks registered so far run in
\* order, each starting its 50 ms timer.
Frame ==
    /\ region.frames # <<>>
    /\ region' = [region EXCEPT !.timers = @ \o region.frames, !.frames = <<>>]
    /\ trace' = <<<<"frame", 0>>>>
    /\ UNCHANGED <<phase, options, state, wavesurfer, engine, cleanupFns, plugins, plug,
                   methods, keydown, container, controls, announcerElement,
                   bodyAnnouncers, inputFocused, destroyCalls>>

\* The oldest timer fires: announcer.textContent = message
Timer ==
    /\ region.timers # <<>>
    /\ region' = [region EXCEPT !.text = Head(region.timers), !.timers = Tail(@)]
    /\ trace' = <<<<"timer", 0>>>>
    /\ UNCHANGED <<phase, options, state, wavesurfer, engine, cleanupFns, plugins, plug,
                   methods, keydown, container, controls, announcerElement,
                   bodyAnnouncers, inputFocused, destroyCalls>>

\* ------------------------------------------------------------ input domains
Messages == {"Skipped back 15 seconds", "Muted", "Unmuted"}

Durations == {0, 30000}
ProgressValues == {<<0 - 1, 2>>, <<0, 1>>, <<1, 2>>, <<1, 1>>, <<17, 10>>}
SeekSeconds == {0 - 5, 15, 45}
SkipSeconds == {<<>>, <<0>>, <<15>>, <<40>>}
SetSpeedValues == {50, 110, 200}
SetVolumeValues == {0 - 50, 0, 60, 150}
HostVolumes == {0, 60, 100}
Keys == {" ", "j", "l", "ArrowUp", "ArrowDown", "m", "0", "End", "x"}
EngineEvents == {"ready", "play", "pause", "finish", "seeking", "audioprocess", "error"}

SpeedConfigs ==
    {SpeedShorthand("absent"), SpeedShorthand("false"),
     SpeedObject("absent", <<<<50, 100, 200>>>>, <<>>),
     SpeedObject("absent", <<<<50, 200>>>>, <<>>),
     SpeedObject("absent", <<<<100, 200, 100>>>>, <<200>>),
     SpeedObject("absent", <<>>, <<0>>)}
SkipConfigs ==
    {SkipShorthand("absent"), SkipShorthand("false"), SkipObject("absent", <<10>>),
     SkipObject("undefined", <<0>>)}
KeyboardConfigs ==
    {KeyboardShorthand("absent"), KeyboardShorthand("false"),
     KeyboardShorthand("undefined"), KeyboardObject("absent"), KeyboardObject("false")}
AnalyticsConfigs ==
    {AnalyticsShorthand("undefined"), AnalyticsShorthand("false"),
     AnalyticsObject("absent", TRUE, <<>>, <<>>, <<FALSE>>),
     AnalyticsObject("absent", TRUE, <<FALSE>>, <<FALSE>>, <<>>)}

\* The player the single-player specifications construct.
Solo == {1}

\* ------------------------------------------------------ specification: speed
SpeedOptionsSet ==
    {Options(peaks, speed, SkipShorthand("absent"), KeyboardShorthand("absent"),
             30000, FullMarkup) :
        peaks \in BOOLEAN, speed \in SpeedConfigs}

NextSpeed ==
    \E p \in Solo :
        \/ \E opts \in SpeedOptionsSet : CreatePlayer(p, opts)
        \/ \E ok \in BOOLEAN : PeaksFetchDone(p, ok)
        \/ EngineEvent(p, "ready")
        \/ \E speed \in SetSpeedValues : SetSpeed(p, speed)
        \/ CycleSpeed(p)
        \/ ClickSpeed(p)
        \/ \E key \in {"ArrowUp", "ArrowDown"} : KeyDown(key)
        \/ Destroy(p)

SpecSpeed == InitSolo /\ [][NextSpeed]_vars

\* -------------------------------------------------- specification: lifecycle
\* One player from construction through the peaks fetch to destroy(), with the
\* engine's events and the plugins registered on it.
LifecycleOptionsSet ==
    {Options(peaks, SpeedShorthand("absent"), SkipShorthand("absent"), keyboard,
             30000, FullMarkup) :
        peaks \in BOOLEAN,
        keyboard \in {KeyboardShorthand("absent"), KeyboardShorthand("false")}}

Next ==
    \E p \in Solo :
        \/ \E opts \in LifecycleOptionsSet : CreatePlayer(p, opts)
        \/ \E ok \in BOOLEAN : PeaksFetchDone(p, ok)
        \/ Destroy(p)
        \/ \E ev \in {"ready", "play", "pause", "finish", "error"} : EngineEvent(p, ev)
        \/ \E id \in PluginIds : UseAnalytics(p, id, AnalyticsShorthand("undefined"), TRUE)
        \/ \E id \in PluginIds : UseTranscript(p, id, TRUE)

Spec == InitSolo /\ [][Next]_vars

\* The lifecycle with the peaks fetch settling: the promise fetch() returned is
\* resolved or rejected by the browser, and initializePlayer resumes.
SpecSettling ==
    Spec /\ \A p \in Solo : WF_vars(\E ok \in BOOLEAN : PeaksFetchDone(p, ok))

\* ------------------------------------------- specification: shared announcer
\* Several players on one page sharing the announcer element.
Announce(p) ==
    Called(p, announceToScreenReader(World(<<"announce", p>>), "message"))

SharedOptionsSet ==
    {Options(FALSE, SpeedShorthand("absent"), SkipShorthand("absent"),
             KeyboardShorthand("absent"), 30000, NoMarkup)}

NextShared ==
    \E p \in Players :
        \/ \E opts \in SharedOptionsSet : CreatePlayer(p, opts)
        \/ \E opts \in SharedOptionsSet : CreatePlayerUnresolved(p, opts)
        \/ Destroy(p)
        \/ Announce(p)
        \/ HostRemoveContainer(p)
        \/ HostRemoveAnnouncer

SpecShared == Init /\ [][NextShared]_vars

\* ---------------------------------------------- specification: host plugins
\* One player with the plugins of the repository and plugins the host wrote.
CustomOptionsSet ==
    {Options(FALSE, SpeedShorthand("absent"), SkipShorthand("absent"),
             KeyboardShorthand("absent"), 30000, NoMarkup)}

NextCustom ==
    \E p \in Solo :
        \/ \E opts \in CustomOptionsSet : CreatePlayer(p, opts)
        \/ \E id \in PluginIds : \E initThrows \in BOOLEAN : \E destroyThrows \in BOOLEAN :
               UseCustom(p, id, initThrows, destroyThrows)
        \/ \E id \in PluginIds : UseAnalytics(p, id, AnalyticsShorthand("undefined"), TRUE)
        \/ \E id \in PluginIds : UseTranscript(p, id, TRUE)
        \/ Destroy(p)
        \/ Announce(p)
        \/ Play(p)

SpecCustom == InitSolo /\ [][NextCustom]_vars

\* ----------------------------------------------------- specification: volume
VolumeOptionsSet ==
    {Options(peaks, SpeedShorthand("absent"), SkipShorthand("absent"),
             KeyboardShorthand("absent"), 30000, NoMarkup) : peaks \in BOOLEAN}

NextVolume ==
    \E p \in Solo :
        \/ \E opts \in VolumeOptionsSet : CreatePlayer(p, opts)
        \/ \E ok \in BOOLEAN : PeaksFetchDone(p, ok)
        \/ EngineEvent(p, "ready")
        \/ ToggleMute(p)
        \/ \E volume \in SetVolumeValues : SetVolume(p, volume)
        \/ \E volume \in HostVolumes : HostSetVolume(p, volume)
        \/ KeyDown("m")
        \/ Destroy(p)

SpecVolume == InitSolo /\ [][NextVolume]_vars

\* ------------------------------------------------------- specification: seek
SeekOptionsSet ==
    {Options(peaks, SpeedShorthand("absent"), skip, KeyboardShorthand("absent"),
             duration, FullMarkup) :
        peaks \in BOOLEAN, skip \in SkipConfigs, duration \in Durations}

NextSeek ==
    \E p \in Solo :
        \/ \E opts \in SeekOptionsSet : CreatePlayer(p, opts)
        \/ \E ok \in BOOLEAN : PeaksFetchDone(p, ok)
        \/ \E ev \in {"ready", "seeking", "audioprocess", "finish"} : EngineEvent(p, ev)
        \/ \E progress \in ProgressValues : SeekTo(p, progress)
        \/ \E seconds \in SeekSeconds : SeekToTime(p, seconds)
        \/ \E seconds \in SkipSeconds : SkipForward(p, seconds)
        \/ \E seconds \in SkipSeconds : SkipBack(p, seconds)
        \/ ClickSkipBack(p)
        \/ ClickSkipForward(p)
        \/ \E key \in {"j", "l", "0", "End", "x"} : KeyDown(key)
        \/ GetTimes(p)
        \/ \E b \in BOOLEAN : Focus(b)
        \/ Destroy(p)

SpecSeek == InitSolo /\ [][NextSeek]_vars

\* ---------------------------------------------------- specification: plugins
\* Plugins registered with use() that rebind setSpeed, skipForward and skipBack.
PluginOptionsSet ==
    {Options(peaks, SpeedShorthand("absent"), SkipShorthand("absent"),
             KeyboardShorthand("absent"), 30000, NoMarkup) : peaks \in BOOLEAN}

WrapConfigs ==
    {AnalyticsShorthand("undefined"),
     AnalyticsObject("absent", TRUE, <<FALSE>>, <<FALSE>>, <<>>)}

NextWrap ==
    \E p \in Solo :
        \/ \E opts \in PluginOptionsSet : CreatePlayer(p, opts)
        \/ \E ok \in BOOLEAN : PeaksFetchDone(p, ok)
        \/ \E id \in PluginIds, config \in WrapConfigs :
              UseAnalytics(p, id, config, TRUE)
        \/ \E speed \in {50, 110} : SetSpeed(p, speed)
        \/ CycleSpeed(p)
        \/ SkipForward(p, <<>>)
        \/ EngineEvent(p, "ready")
        \/ KeyDown("ArrowUp")
        \/ Destroy(p)

SpecWrap == InitSolo /\ [][NextWrap]_vars

\* ------------------------------------------------------ specification: ready
\* One player with every engine event and the transport operations a host page or
\* a user can issue at any time of its life.
ReadyOptionsSet ==
    {Options(peaks, SpeedObject("absent", <<<<50, 100, 200>>>>, <<>>),
             SkipShorthand("absent"), KeyboardShorthand("absent"), 30000, FullMarkup) :
        peaks \in BOOLEAN}

NextReady ==
    \E p \in Solo :
        \/ \E opts \in ReadyOptionsSet : CreatePlayer(p, opts)
        \/ \E ok \in BOOLEAN : PeaksFetchDone(p, ok)
        \/ \E ev \in EngineEvents : EngineEvent(p, ev)
        \/ Play(p)
        \/ Pause(p)
        \/ PlayPause(p)
        \/ SeekTo(p, <<1, 2>>)
        \/ SetSpeed(p, 200)
        \/ SetVolume(p, 60)
        \/ ToggleMute(p)
        \/ ClickPlay(p)
        \/ KeyDown(" ")
        \/ Destroy(p)

SpecReady == InitSolo /\ [][NextReady]_vars

\* -------------------------------------------------- specification: transport
\* The transport operations called at any time of a player's life: while the peaks
\* fetch is pending, while the engine is bound, and after destroy().
NextTransport ==
    \E p \in Solo :
        \/ \E opts \in ReadyOptionsSet : CreatePlayer(p, opts)
        \/ \E ok \in BOOLEAN : PeaksFetchDone(p, ok)
        \/ EngineEvent(p, "ready")
        \/ Play(p)
        \/ Pause(p)
        \/ PlayPause(p)
        \/ SeekTo(p, <<1, 2>>)
        \/ SeekToTime(p, 15)
        \/ SkipForward(p, <<>>)
        \/ SkipBack(p, <<>>)
        \/ SetSpeed(p, 200)
        \/ CycleSpeed(p)
        \/ SetVolume(p, 60)
        \/ ToggleMute(p)
        \/ GetTimes(p)
        \/ Destroy(p)

SpecTransport == InitSolo /\ [][NextTransport]_vars

\* ================================================================== properties
\* The call the last step made: the first entry of its trace.
LastCall == IF trace = <<>> THEN <<"none", 0>> ELSE trace[1]

\* trace has an entry whose first field is `name`.
Did(name) == \E i \in 1..Len(trace) : trace[i][1] = name

\* Player p's handler is among the keydown listeners attached to the document.
Listening(p) == \E i \in 1..Len(keydown) : keydown[i] = p

\* ------------------------------------------------------------------------ C1
\* C1: destroy() is final.  Once destroy() has returned for a player, in every later
\* state its engine reference is null, none of its keydown listeners is attached to
\* the document and its container is not marked initialized, also when the peaks
\* fetch started by construction settles only after destroy() was called.
C1_DestroyIsFinal ==
    \A p \in Players :
        destroyCalls[p] > 0 =>
            /\ ~wavesurfer[p]
            /\ ~Listening(p)
            /\ ~container[p].initialized

\* ------------------------------------------------------------------------ C6
\* C6: destroy() is idempotent.  A destroy() call that directly follows a destroy()
\* of the same player may run the registered cleanup callbacks and the plugins'
\* destroy() again, but that has no further effect: the player's state, the engine,
\* the document's listeners, the plugins' state, the container and the announcer
\* are all left as the first call left them, and the engine is not destroyed again.
C6_SecondDestroyHasNoEffect ==
    [][\A p \in Players :
          (/\ LastCall[1] = "destroy" /\ LastCall[2] = p
           /\ LastCall'[1] = "destroy" /\ LastCall'[2] = p
           /\ destroyCalls'[p] = destroyCalls[p] + 1)
          => /\ UNCHANGED <<phase, options, state, wavesurfer, engine, cleanupFns,
                            plugins, plug, methods, keydown, container, controls,
                            announcerElement, bodyAnnouncers, inputFocused>>
             /\ ~wavesurfer'[p]
             /\ ~Listening(p)'
             /\ \A i \in 1..Len(trace') : trace'[i][1] # "ws.destroy"]_vars

\* A second destroy() has just returned for a player that was bound to an engine, had
\* a keydown listener and two plugins: its cleanup callback and both plugins'
\* destroy() ran again.
C6_Witness ==
    \E p \in Players :
        /\ destroyCalls[p] = 2
        /\ LastCall[1] = "destroy"
        /\ engine[p].status = "destroyed"
        /\ Len(plugins[p]) = 2
        /\ Did("cleanup")
        /\ Did("plugin.destroy")

\* ------------------------------------------------------------------------ C8
\* C8: isReady is monotonic.  It is false from construction on, the only step that
\* makes it true is the engine's ready event, and no step (an engine event such as
\* error, finish or pause, a player operation, destroy()) makes it false again.
C8_IsReadyMonotonic ==
    [][\A p \in Players :
          /\ phase[p] = "absent" => ~state'[p].isReady
          /\ state[p].isReady => state'[p].isReady
          /\ (~state[p].isReady /\ state'[p].isReady) =>
                 (LastCall'[1] = "engine" /\ LastCall'[2] = p /\ LastCall'[3] = "ready")
      ]_vars

\* A ready player whose engine has just reported an error.
C8_Witness ==
    \E p \in Players :
        /\ state[p].isReady
        /\ LastCall[1] = "engine" /\ LastCall[3] = "error"

\* ------------------------------------------------------------------------ C2
\* A player that was constructed and not destroyed.
Active(p) == phase[p] # "absent" /\ destroyCalls[p] = 0

\* C2: with two constructed players sharing the announcer element, destroying one
\* while the other is still active leaves the element in the document, and
\* destroying the last active one removes it.
C2_SharedAnnouncer ==
    [][\A p \in Players : \A q \in Players \ {p} :
          (/\ Active(p)
           /\ phase[q] # "absent"
           /\ \A r \in Players \ {p, q} : ~Active(r)
           /\ bodyAnnouncers = 1
           /\ LastCall'[1] = "destroy" /\ LastCall'[2] = p
           /\ destroyCalls'[p] = 1)
          => IF Active(q) THEN bodyAnnouncers' = 1 ELSE bodyAnnouncers' = 0]_vars

\* ------------------------------------------------------------------------ C3
\* The last step was toggleMute() muting player p, whose engine had volume v.
JustMuted(p, v) ==
    /\ Len(trace) >= 3
    /\ trace[1][1] = "toggleMute" /\ trace[1][2] = p
    /\ trace[2][1] = "ws.getVolume" /\ trace[2][3] = v
    /\ trace[3][1] = "ws.setVolume" /\ trace[3][3] = 0

\* C3: for an unmuted player with an engine at any volume v in [0,1], 0 included,
\* the first toggleMute() sets the engine volume to 0 and a second one directly
\* after it sets it back to exactly v and leaves isMuted false.
C3_MuteUnmuteRestoresVolume ==
    [][\A p \in Players : \A v \in 0..100 :
          (/\ JustMuted(p, v)
           /\ LastCall'[1] = "toggleMute" /\ LastCall'[2] = p)
          => /\ engine[p].volume = 0
             /\ state[p].isMuted
             /\ engine'[p].volume = v
             /\ ~state'[p].isMuted]_vars

\* ------------------------------------------------------------------------ C4
\* progress clamped to [0,1], case by case.
Clamped(n, d) == IF n < 0 THEN <<0, 1>> ELSE IF n > d THEN <<1, 1>> ELSE <<n, d>>

\* C4: every seek the engine receives is within [0,1], whichever operation issued it
\* (seekTo, seekToTime, skipForward, skipBack, the skip buttons, the jump keys), and
\* seekTo(progress) on a player with an engine makes exactly one engine seek call,
\* with min(1, max(0, progress)).
C4_SeekWithinRange ==
    [][/\ \A i \in 1..Len(trace') :
              trace'[i][1] = "ws.seekTo" =>
                  /\ trace'[i][4] > 0
                  /\ 0 <= trace'[i][3]
                  /\ trace'[i][3] <= trace'[i][4]
       /\ \A p \in Players :
              (LastCall'[1] = "seekTo" /\ LastCall'[2] = p /\ wavesurfer[p]) =>
                  LET c == Clamped(LastCall'[3], LastCall'[4])
                  IN  /\ Len(trace') = 2
                      /\ trace'[2][1] = "ws.seekTo"
                      /\ trace'[2][2] = p
                      /\ trace'[2][3] * c[2] = c[1] * trace'[2][4]]_vars

\* seekTo(1.7) and seekTo(-0.5) were each answered by one in-range engine seek.
C4_Witness ==
    \E p \in Players :
        \/ trace = <<<<"seekTo", p, 17, 10>>, <<"ws.seekTo", p, 1, 1>>>>
        \/ trace = <<<<"seekTo", p, 0 - 1, 2>>, <<"ws.seekTo", p, 0, 1>>>>

\* ------------------------------------------------------------------------ C5
TransportCalls ==
    {"play", "pause", "playPause", "seekTo", "seekToTime", "skipForward", "skipBack",
     "setSpeed", "cycleSpeed", "setVolume", "toggleMute"}

EngineCalls ==
    {"ws.play", "ws.pause", "ws.playPause", "ws.seekTo", "ws.setPlaybackRate",
     "ws.setVolume", "ws.getVolume", "ws.destroy"}

\* C5: while a constructed player's engine reference is absent (the peaks fetch is
\* pending, or destroy() was called), every transport operation leaves PlayerState
\* unchanged and calls nothing on an engine, and getCurrentTime() and getDuration()
\* return 0.
C5_NoEngineNoOp ==
    [][\A p \in Players :
          (phase[p] # "absent" /\ ~wavesurfer[p]) =>
              /\ (LastCall'[1] \in TransportCalls /\ LastCall'[2] = p) =>
                     /\ state'[p] = state[p]
                     /\ \A i \in 2..Len(trace') : trace'[i][1] \notin EngineCalls
              /\ (LastCall'[1] = "getCurrentTime/getDuration" /\ LastCall'[2] = p) =>
                     trace'[2] = <<"returned", 0, 0>>]_vars

\* ------------------------------------------------------------------------ C7
\* What a plugin's track() leaves in the trace.
Tracked(id, eventName, value) ==
    <<IF plug[id].tracker THEN "track" ELSE "devLog", id, eventName, value>>

\* C7: when plugins registered through use() each rebound setSpeed, one
\* player.setSpeed(s) call runs the original implementation (currentSpeed becomes s,
\* the rate goes to the engine when there is one) and every wrapper, the most
\* recently registered outermost: each wrapper first calls the implementation bound
\* before it and then tracks, so the wrappers track in registration order.
C7_WrappersChain ==
    [][\A p \in Players :
          (LastCall'[1] = "setSpeed" /\ LastCall'[2] = p) =>
              LET s == LastCall'[3]
                  wrappers == methods[p].setSpeed
                  original == IF wavesurfer[p]
                              THEN <<<<"ws.setPlaybackRate", p, s>>>>
                              ELSE <<>>
              IN  /\ state'[p].currentSpeed = s
                  /\ wavesurfer[p] => engine'[p].rate = s
                  /\ trace' = <<LastCall'>> \o original \o
                              [i \in 1..Len(wrappers) |->
                                  Tracked(wrappers[i], "speed_change", s)]]_vars

\* setSpeed(0.5) on a bound player two plugins wrapped: the engine call, then the
\* first plugin's tracking, then the second's.
C7_Witness ==
    \E p \in Players :
        /\ methods[p].setSpeed = <<1, 2>>
        /\ trace = <<<<"setSpeed", p, 50>>, <<"ws.setPlaybackRate", p, 50>>,
                     <<"track", 1, "speed_change", 50>>,
                     <<"track", 2, "speed_change", 50>>>>

\* ------------------------------------------------------------------------ C9
\* The configured speed options and default speed of a constructed player.
ConfiguredSpeed(p) == normalizeSpeedConfig(MergedFeature(options[p].speed))

InOptions(p) ==
    \E i \in 1..Len(ConfiguredSpeed(p).options) :
        ConfiguredSpeed(p).options[i] = state[p].currentSpeed

\* C9 as claimed: in every reachable state of a constructed player, currentSpeed is
\* a member of the configured speed options.
C9_SpeedAlwaysInOptions ==
    \A p \in Players : phase[p] # "absent" => InOptions(p)

\* C9 as amended: construction makes currentSpeed the configured default speed and
\* setSpeed(s) makes it s, whether or not these are options; every other step
\* (cycleSpeed, a speed-button click, a keyboard speed key, engine events, destroy)
\* keeps currentSpeed among the configured options once it is among them.
C9_SpeedStaysInOptions ==
    [][\A p \in Players :
          /\ (LastCall'[1] = "createPlayer" /\ LastCall'[2] = p) =>
                 state'[p].currentSpeed = ConfiguredSpeed(p)'.defaultSpeed
          /\ (LastCall'[1] = "setSpeed" /\ LastCall'[2] = p) =>
                 state'[p].currentSpeed = LastCall'[3]
          /\ (phase[p] # "absent" /\ InOptions(p) /\ LastCall'[1] # "setSpeed") =>
                 InOptions(p)']_vars

\* A keyboard speed key has just moved a player with custom options to a new option.
C9_Witness ==
    \E p \in Players :
        /\ LastCall[1] = "keydown"
        /\ Did("ws.setPlaybackRate")
        /\ options[p].speed.kind = "object"
        /\ options[p].speed.options # <<>>
        /\ InOptions(p)

\* ----------------------------------------------------------------------- C10
\* C10 as claimed: when currentSpeed equals the option at index i of the n
\* configured options, cycleSpeed() sets currentSpeed to the option at index
\* (i + 1) mod n and forwards that rate to the engine.
C10_CycleFromAnyIndex ==
    [][\A p \in Players :
          (LastCall'[1] = "cycleSpeed" /\ LastCall'[2] = p) =>
              LET opts == ConfiguredSpeed(p).options
                  n == Len(opts)
              IN  \A i \in 0..(n - 1) :
                      At(opts, i) = state[p].currentSpeed =>
                          /\ state'[p].currentSpeed = At(opts, (i + 1) % n)
                          /\ wavesurfer[p] => engine'[p].rate = At(opts, (i + 1) % n)]_vars

\* C10 as amended: with i the first index at which currentSpeed occurs in the n
\* configured options, cycleSpeed() sets currentSpeed to the option at index
\* (i + 1) mod n, wrapping from the last option to the first, and forwards that rate
\* to the engine when the player has one.
C10_CycleFromFirstIndex ==
    [][\A p \in Players :
          (LastCall'[1] = "cycleSpeed" /\ LastCall'[2] = p) =>
              LET opts == ConfiguredSpeed(p).options
                  n == Len(opts)
              IN  \A i \in 0..(n - 1) :
                      (/\ At(opts, i) = state[p].currentSpeed
                       /\ \A j \in 0..(i - 1) : At(opts, j) # state[p].currentSpeed) =>
                          /\ state'[p].currentSpeed = At(opts, (i + 1) % n)
                          /\ wavesurfer[p] =>
                                 /\ engine'[p].rate = At(opts, (i + 1) % n)
                                 /\ trace'[2] = <<"ws.setPlaybackRate", p,
                                                  At(opts, (i + 1) % n)>>]_vars

\* cycleSpeed() on a bound player with the default options has just gone to 0.5x.
C10_Witness ==
    \E p \in Players :
        /\ ConfiguredSpeed(p).options = DEFAULT_SPEED_OPTIONS
        /\ trace = <<<<"cycleSpeed", p>>, <<"ws.setPlaybackRate", p, 50>>>>
        /\ state[p].currentSpeed = 50

\* ----------------------------------------------------------------------- C11
\* The index cycleSpeed() is to resolve for a current speed that is not an option:
\* the first index of 1x, or 0 when 1x is not an option either.
FallbackIndex(opts) ==
    IF \E i \in 0..(Len(opts) - 1) : At(opts, i) = 100
    THEN CHOOSE i \in 0..(Len(opts) - 1) :
             At(opts, i) = 100 /\ \A j \in 0..(i - 1) : At(opts, j) # 100
    ELSE 0

\* C11: when currentSpeed is not one of the configured speed options, cycleSpeed()
\* takes the index of 1x (index 0 when 1x is not an option) as the current index and
\* sets currentSpeed to the option after it.
C11_CycleFallsBackToOne ==
    [][\A p \in Players :
          (/\ LastCall'[1] = "cycleSpeed" /\ LastCall'[2] = p
           /\ phase[p] # "absent"
           /\ ~InOptions(p))
          => LET opts == ConfiguredSpeed(p).options
             IN  state'[p].currentSpeed =
                     At(opts, (FallbackIndex(opts) + 1) % Len(opts))]_vars

\* ----------------------------------------------------------------------- C12
\* The configured skip seconds of a constructed player.
ConfiguredSkip(p) == normalizeSkipConfig(MergedFeature(options[p].skip))

\* The seconds a skip call skips: its argument, or the configured default.
SkipAmount(p, seconds) == IF seconds = <<>> THEN ConfiguredSkip(p).seconds ELSE seconds[1]

\* C12: with an engine of duration d > 0 at time t in [0,d], skipForward(s) makes one
\* engine seek to the time min(d, t + s) and skipBack(s) one to max(0, t - s), for an
\* explicit s or the configured default when s is omitted; the time sought is never
\* above d and never below 0.
C12_SkipWithinDuration ==
    [][\A p \in Players :
          (/\ LastCall'[1] \in {"skipForward", "skipBack"} /\ LastCall'[2] = p
           /\ wavesurfer[p]
           /\ engine[p].duration > 0)
          => LET d == engine[p].duration
                 t == engine[p].time
                 s == 1000 * SkipAmount(p, LastCall'[3])
                 target == IF LastCall'[1] = "skipForward"
                           THEN (IF t + s > d THEN d ELSE t + s)
                           ELSE (IF t - s < 0 THEN 0 ELSE t - s)
             IN  /\ 0 <= t /\ t <= d
                 /\ 0 <= target /\ target <= d
                 /\ Len(trace') = 2
                 /\ trace'[2][1] = "ws.seekTo" /\ trace'[2][2] = p
                 /\ trace'[2][3] * d = target * trace'[2][4]
                 /\ engine'[p].time = target]_vars

\* skipForward(40) from 15 s into a 30 s audio sought the end, and skipBack() with the
\* default 15 s from there sought 15 s.
C12_Witness ==
    \E p \in Players :
        /\ engine[p].duration = 30000
        /\ Len(trace) = 2
        /\ trace[2][1] = "ws.seekTo"
        /\ \/ /\ LastCall[1] = "skipForward"
              /\ LastCall[3] = <<40>>
              /\ trace[2][3] = 30000 /\ trace[2][4] = 30000
           \/ /\ LastCall[1] = "skipBack"
              /\ LastCall[3] = <<>>
              /\ trace[2][3] = 15000 /\ trace[2][4] = 30000

\* ----------------------------------------------------------------------- C13
\* C13: when the engine's duration is 0 or there is no engine, seekToTime,
\* skipForward and skipBack make no engine call and leave PlayerState (currentTime
\* included) and the engine as they were.
C13_NoSeekWithoutDuration ==
    [][\A p \in Players :
          (/\ LastCall'[1] \in {"seekToTime", "skipForward", "skipBack"}
           /\ LastCall'[2] = p
           /\ phase[p] # "absent"
           /\ (~wavesurfer[p] \/ engine[p].duration = 0))
          => /\ trace' = <<LastCall'>>
             /\ state' = state
             /\ engine' = engine]_vars

\* A skip and a seekToTime were called on a bound player whose engine does not know
\* the duration yet.
C13_Witness ==
    \E p \in Players :
        /\ wavesurfer[p]
        /\ engine[p].status = "live"
        /\ engine[p].duration = 0
        /\ Len(trace) = 1
        /\ LastCall[1] \in {"skipForward", "skipBack", "seekToTime"}

\* --------------------------------------------------- specification: keyboard
\* Every key of the default shortcut lists, and one that is no shortcut.
AllKeys ==
    DEFAULT_KEYBOARD_CONFIG.playPause \cup DEFAULT_KEYBOARD_CONFIG.skipBack
    \cup DEFAULT_KEYBOARD_CONFIG.skipForward \cup DEFAULT_KEYBOARD_CONFIG.speedUp
    \cup DEFAULT_KEYBOARD_CONFIG.speedDown \cup DEFAULT_KEYBOARD_CONFIG.mute
    \cup DEFAULT_KEYBOARD_CONFIG.jumpStart \cup DEFAULT_KEYBOARD_CONFIG.jumpEnd
    \cup {"x"}

KeysOptionsSet ==
    {Options(peaks, SpeedShorthand("absent"), SkipShorthand("absent"),
             KeyboardShorthand("absent"), 30000, NoMarkup) : peaks \in BOOLEAN}

NextKeys ==
    \/ \E p \in Solo :
          \/ \E opts \in KeysOptionsSet : CreatePlayer(p, opts)
          \/ \E ok \in BOOLEAN : PeaksFetchDone(p, ok)
          \/ EngineEvent(p, "ready")
          \/ Destroy(p)
    \/ \E key \in AllKeys : KeyDown(key)
    \/ \E b \in BOOLEAN : Focus(b)

SpecKeys == InitSolo /\ [][NextKeys]_vars

\* ----------------------------------------------------------------------- C14
\* C14: a keydown of any configured shortcut key changes nothing and invokes no
\* player operation while a text-input-like element has focus, and does nothing to
\* or for a player whose isReady is false.
C14_KeysSuppressed ==
    [][LastCall'[1] = "keydown" =>
          /\ inputFocused =>
                 /\ trace' = <<LastCall'>>
                 /\ UNCHANGED <<state, engine, wavesurfer, announcerElement,
                                bodyAnnouncers, controls, plug, methods>>
          /\ \A p \in Players :
                 ~state[p].isReady => (state'[p] = state[p] /\ engine'[p] = engine[p])
          /\ (\A p \in Players : Listening(p) => ~state[p].isReady) =>
                 trace' = <<LastCall'>>]_vars

\* The mute key was pressed, with no input focused, while the player's listener was
\* attached and its engine bound but not ready.
C14_Witness ==
    \E p \in Players :
        /\ LastCall[1] = "keydown" /\ LastCall[2] = "m"
        /\ ~inputFocused
        /\ Listening(p)
        /\ wavesurfer[p]
        /\ ~state[p].isReady

\* ----------------------------------------------------------------------- C15
\* Player p's listener acts on a key: it is attached, no input has focus, the engine
\* is bound and ready.
Handles(p) == Listening(p) /\ ~inputFocused /\ wavesurfer[p] /\ state[p].isReady

\* C15 as claimed: the speed keys keep currentSpeed within the configured options and
\* do not wrap: at the last option speed-up leaves it unchanged, at the first option
\* speed-down leaves it unchanged, from any other option they move to an adjacent one.
C15_SpeedKeysByPosition ==
    [][\A p \in Players :
          (LastCall'[1] = "keydown" /\ LastCall'[2] \in {"ArrowUp", "ArrowDown"}
           /\ Handles(p))
          => LET opts == ConfiguredSpeed(p).options
                 n == Len(opts)
                 cur == state[p].currentSpeed
                 new == state'[p].currentSpeed
                 up == LastCall'[2] = "ArrowUp"
             IN  /\ new = cur \/ \E i \in 0..(n - 1) : At(opts, i) = new
                 /\ (up /\ cur = At(opts, n - 1)) => new = cur
                 /\ (~up /\ cur = At(opts, 0)) => new = cur
                 /\ (InOptions(p) /\ ~(up /\ cur = At(opts, n - 1))
                                  /\ ~(~up /\ cur = At(opts, 0))) =>
                        \E i \in 0..(n - 1) :
                            /\ At(opts, i) = cur
                            /\ IF up THEN i + 1 <= n - 1 /\ new = At(opts, i + 1)
                                     ELSE i - 1 >= 0 /\ new = At(opts, i - 1)]_vars

\* The first index of v in opts, or -1.
FirstIndex(opts, v) ==
    IF \E i \in 0..(Len(opts) - 1) : At(opts, i) = v
    THEN CHOOSE i \in 0..(Len(opts) - 1) :
             At(opts, i) = v /\ \A j \in 0..(i - 1) : At(opts, j) # v
    ELSE 0 - 1

\* C15 as amended: the position i of currentSpeed is the first index at which it
\* occurs in the configured options, the first index of 1x when it is not an option,
\* and -1 when 1x is not one either.  Speed-up sets the option at i + 1 unless i is
\* the last index, speed-down the option at i - 1 unless i <= 0; neither wraps and
\* neither leaves the options.
C15_SpeedKeysByFirstIndex ==
    [][\A p \in Players :
          (LastCall'[1] = "keydown" /\ LastCall'[2] \in {"ArrowUp", "ArrowDown"}
           /\ Handles(p))
          => LET opts == ConfiguredSpeed(p).options
                 n == Len(opts)
                 cur == state[p].currentSpeed
                 new == state'[p].currentSpeed
                 i == IF InOptions(p) THEN FirstIndex(opts, cur)
                      ELSE FirstIndex(opts, 100)
             IN  /\ new = cur \/ \E k \in 0..(n - 1) : At(opts, k) = new
                 /\ IF LastCall'[2] = "ArrowUp"
                    THEN new = (IF i < n - 1 THEN At(opts, i + 1) ELSE cur)
                    ELSE new = (IF i > 0 THEN At(opts, i - 1) ELSE cur)]_vars

\* Speed-up was pressed at 2x, the last of the default options, and changed nothing.
C15_Witness ==
    \E p \in Players :
        /\ trace = <<<<"keydown", "ArrowUp">>>>
        /\ Handles(p)
        /\ ConfiguredSpeed(p).options = DEFAULT_SPEED_OPTIONS
        /\ state[p].currentSpeed = 200

\* ------------------------------------------------- specification: normalizers
\* The four config normalizers applied to a config: `false`, `true`, `undefined`, or
\* an object with some of its fields given.
Enableds == {"absent", "undefined", "true", "false"}

SpeedInputs ==
    {SpeedShorthand(kind) : kind \in {"false", "true", "undefined"}}
    \cup {SpeedObject(enabled, opts, defaultSpeed) :
             enabled \in Enableds, opts \in {<<>>, <<<<50, 200>>>>},
             defaultSpeed \in {<<>>, <<0>>, <<150>>}}

SkipInputs ==
    {SkipShorthand(kind) : kind \in {"false", "true", "undefined"}}
    \cup {SkipObject(enabled, seconds) :
             enabled \in Enableds, seconds \in {<<>>, <<0>>, <<10>>}}

KeyboardInputs ==
    {KeyboardShorthand(kind) : kind \in {"false", "true", "undefined"}}
    \cup {KeyboardPartial(enabled, lists, showHints) :
             enabled \in Enableds,
             lists \in {NoLists, [NoLists EXCEPT !["playPause"] = <<{"p"}>>],
                        [NoLists EXCEPT !["mute"] = <<{}>>, !["jumpEnd"] = <<{"e"}>>]},
             showHints \in {<<>>, <<FALSE>>}}

AnalyticsInputs ==
    {AnalyticsShorthand(kind) : kind \in {"false", "true", "undefined"}}
    \cup {AnalyticsObject(enabled, tracker, trackEvents, trackSpeedChange, trackSkip) :
             enabled \in Enableds, tracker \in BOOLEAN,
             trackEvents \in {<<>>, <<FALSE>>}, trackSpeedChange \in {<<>>, <<FALSE>>},
             trackSkip \in {<<>>, <<TRUE>>}}

\* A call of a normalizer: the trace holds the call, its argument and its result.
Normalized(name, config, result) ==
    /\ trace' = <<<<name, config, result>>>>
    /\ UNCHANGED <<region, phase, options, state, wavesurfer, engine, cleanupFns, plugins, plug,
                   methods, keydown, container, controls, announcerElement,
                   bodyAnnouncers, inputFocused, destroyCalls>>

NormalizeSpeed(config) ==
    Normalized("normalizeSpeedConfig", config, normalizeSpeedConfig(config))
NormalizeSkip(config) ==
    Normalized("normalizeSkipConfig", config, normalizeSkipConfig(config))
NormalizeKeyboard(config) ==
    Normalized("normalizeKeyboardConfig", config, normalizeKeyboardConfig(config))
NormalizeAnalytics(config) ==
    Normalized("normalizeAnalyticsConfig", config, normalizeAnalyticsConfig(config))

NextNormalize ==
    \/ \E config \in SpeedInputs : NormalizeSpeed(config)
    \/ \E config \in SkipInputs : NormalizeSkip(config)
    \/ \E config \in KeyboardInputs : NormalizeKeyboard(config)
    \/ \E config \in AnalyticsInputs : NormalizeAnalytics(config)

SpecNormalize == InitSolo /\ [][NextNormalize]_vars

Normalizers ==
    {"normalizeSpeedConfig", "normalizeSkipConfig", "normalizeKeyboardConfig",
     "normalizeAnalyticsConfig"}

\* The last step was a call of normalizer `name`.
NormalizerCalled(name) == LastCall[1] = name

\* The documented defaults of each normalized record.
DefaultsOf(name) ==
    CASE name = "normalizeSpeedConfig" ->
             [enabled |-> TRUE, options |-> <<50, 75, 100, 125, 150, 175, 200>>,
              defaultSpeed |-> 100]
      [] name = "normalizeSkipConfig" -> [enabled |-> TRUE, seconds |-> 15]
      [] name = "normalizeKeyboardConfig" ->
             [enabled |-> TRUE, playPause |-> {" ", "k", "K"},
              skipBack |-> {"j", "J", "ArrowLeft"},
              skipForward |-> {"l", "L", "ArrowRight"}, speedUp |-> {"ArrowUp"},
              speedDown |-> {"ArrowDown"}, mute |-> {"m", "M"},
              jumpStart |-> {"0", "Home"}, jumpEnd |-> {"End"}, showHints |-> TRUE]
      [] OTHER ->
             [enabled |-> TRUE, tracker |-> FALSE, trackView |-> TRUE,
              trackPlay |-> TRUE, trackPause |-> TRUE, trackComplete |-> TRUE,
              trackSpeedChange |-> TRUE, trackSkip |-> TRUE]

\* ----------------------------------------------------------------------- C16
\* C16: each of the four normalizers maps `false` to its defaults with enabled false,
\* `true` and `undefined` to its defaults with enabled true, and whatever the input
\* returns a record with every field of the defaults present.
C16_ShorthandNormalizes ==
    \A name \in Normalizers :
        NormalizerCalled(name) =>
            LET config == LastCall[2]
                result == LastCall[3]
            IN  /\ DOMAIN result = DOMAIN DefaultsOf(name)
                /\ config.kind = "false" =>
                       result = [DefaultsOf(name) EXCEPT !.enabled = FALSE]
                /\ config.kind \in {"true", "undefined"} => result = DefaultsOf(name)

\* normalizeKeyboardConfig(false) has just returned.
C16_Witness ==
    /\ NormalizerCalled("normalizeKeyboardConfig")
    /\ LastCall[2].kind = "false"
    /\ ~LastCall[3].enabled

\* ----------------------------------------------------------------------- C17
\* C17: for an object config each of the four normalizers resolves enabled to
\* (object.enabled !== false): enabled absent, undefined or true enables the
\* feature and only an explicit false disables it.
C17_EnabledUnlessFalse ==
    \A name \in Normalizers :
        (NormalizerCalled(name) /\ LastCall[2].kind = "object") =>
            (LastCall[3].enabled <=> LastCall[2].enabled # "false")

\* ----------------------------------------------------------------------- C18
\* What an object config supplies for a field, or the default when it omits it.
Supplied(opt, default) == IF opt = <<>> THEN default ELSE opt[1]

\* C18: for an object config every field the object supplies is kept as given in the
\* normalized record (a skip seconds of 0 or a defaultSpeed of 0 included) and every
\* field it omits takes the default.
C18_SuppliedFieldsOverride ==
    LET config == LastCall[2]
        result == LastCall[3]
    IN  /\ (NormalizerCalled("normalizeSpeedConfig") /\ config.kind = "object") =>
               /\ result.options = Supplied(config.options, DefaultsOf(LastCall[1]).options)
               /\ result.defaultSpeed = Supplied(config.defaultSpeed, 100)
        /\ (NormalizerCalled("normalizeSkipConfig") /\ config.kind = "object") =>
               result.seconds = Supplied(config.seconds, 15)
        /\ (NormalizerCalled("normalizeKeyboardConfig") /\ config.kind = "object") =>
               /\ \A f \in KeyListFields :
                      result[f] = Supplied(config.lists[f], DefaultsOf(LastCall[1])[f])
               /\ result.showHints = Supplied(config.showHints, TRUE)
        /\ (NormalizerCalled("normalizeAnalyticsConfig") /\ config.kind = "object") =>
               /\ result.tracker = config.tracker
               /\ result.trackView = Supplied(config.trackEvents, TRUE)
               /\ result.trackPlay = Supplied(config.trackEvents, TRUE)
               /\ result.trackPause = Supplied(config.trackEvents, TRUE)
               /\ result.trackComplete = Supplied(config.trackEvents, TRUE)
               /\ result.trackSpeedChange = Supplied(config.trackSpeedChange, TRUE)
               /\ result.trackSkip = Supplied(config.trackSkip, TRUE)

\* ----------------------------------------------------------------------- C19
\* volume (in hundredths) brought into [0,1], case by case.
VolumeInRange(volume) == IF volume < 0 THEN 0 ELSE IF volume > 100 THEN 100 ELSE volume

\* C19: setVolume(v) forwards min(1, max(0, v)) to the engine, in one call when the
\* player has an engine and in none when it has not; a clamped value above 0 sets
\* isMuted to false and previousVolume to the clamped value; a clamped value of 0
\* leaves isMuted and previousVolume as they were.
C19_SetVolumeClamps ==
    [][\A p \in Players :
          (LastCall'[1] = "setVolume" /\ LastCall'[2] = p) =>
              LET clamped == VolumeInRange(LastCall'[3])
              IN  /\ wavesurfer[p] =>
                         /\ trace' = <<LastCall', <<"ws.setVolume", p, clamped>>>>
                         /\ engine'[p].volume = clamped
                  /\ ~wavesurfer[p] => trace' = <<LastCall'>>
                  /\ clamped > 0 =>
                         /\ ~state'[p].isMuted
                         /\ state'[p].previousVolume = clamped
                  /\ clamped = 0 =>
                         /\ state'[p].isMuted = state[p].isMuted
                         /\ state'[p].previousVolume = state[p].previousVolume]_vars

\* setVolume(1.5) has just been forwarded as 1 to the engine and has left the player
\* unmuted with previousVolume 1.
C19_Witness ==
    \E p \in Players :
        /\ LastCall[1] = "setVolume" /\ LastCall[2] = p /\ LastCall[3] = 150
        /\ Len(trace) = 2 /\ trace[2][1] = "ws.setVolume" /\ trace[2][3] = 100
        /\ state[p].previousVolume = 100 /\ ~state[p].isMuted

\* ----------------------------------------------------------------------- C20
\* What destroy() of player p does from the current state, in order: the cleanup
\* callbacks in registration order, the plugins' destroy() in registration order,
\* the engine's destroy() when there is an engine, the announcer cleanup, the
\* un-marking of the container, and the destroy callback.
DestroySteps(p) ==
    [i \in 1..Len(cleanupFns[p]) |-> <<"cleanup", p, i>>]
    \o [i \in 1..Len(plugins[p]) |-> <<"plugin.destroy", plugins[p][i]>>]
    \o (IF wavesurfer[p] THEN <<<<"ws.destroy", p>>>> ELSE <<>>)
    \o <<<<"cleanupAnnouncer", p>>, <<"classList.remove", p>>,
         <<"onError", p, "Player destroyed">>>>

\* C20: destroy() performs its steps in this order: every registered cleanup callback
\* in registration order, then destroy() of every registered plugin in registration
\* order, then the engine's destroy and the release of the reference, then the
\* shared-announcer cleanup, then the un-marking of the container as initialized.
C20_DestroyOrder ==
    [][\A p \in Players :
          (LastCall'[1] = "destroy" /\ LastCall'[2] = p) =>
              /\ Len(trace') = 1 + Len(DestroySteps(p))
              /\ \A i \in 1..Len(DestroySteps(p)) :
                     /\ Len(trace'[i + 1]) = Len(DestroySteps(p)[i])
                     /\ trace'[i + 1][1] = DestroySteps(p)[i][1]
                     /\ trace'[i + 1] = DestroySteps(p)[i]
              /\ ~wavesurfer'[p]
              /\ ~container'[p].initialized]_vars

\* destroy() has just run on a player with an engine, a registered cleanup callback
\* and two plugins: the callback, both plugins' destroy() and the engine's destroy.
C20_Witness ==
    \E p \in Players :
        /\ LastCall[1] = "destroy" /\ LastCall[2] = p
        /\ Len(plugins[p]) = 2
        /\ Len(cleanupFns[p]) >= 1
        /\ Len(trace) = 8
        /\ trace[2][1] = "cleanup"
        /\ trace[3][1] = "plugin.destroy" /\ trace[3][2] = plugins[p][1]
        /\ trace[4][1] = "plugin.destroy" /\ trace[4][2] = plugins[p][2]
        /\ trace[5][1] = "ws.destroy"

\* ----------------------------------------------------------------------- C21
\* The handlers initializePlayer registers on a new engine for markup m: the seven
\* core handlers, then the play button's two, then the time display's three.
BoundHandlers(m) ==
    <<Handler("ready", "core", 0), Handler("play", "core", 0),
      Handler("pause", "core", 0), Handler("finish", "core", 0),
      Handler("seeking", "core", 0), Handler("audioprocess", "core", 0),
      Handler("error", "core", 0)>>
    \o (IF m.playButton
        THEN <<Handler("play", "playButton", 0), Handler("pause", "playButton", 0)>>
        ELSE <<>>)
    \o (IF m.timeDisplay
        THEN <<Handler("audioprocess", "timeDisplay", 0),
               Handler("ready", "timeDisplay", 0), Handler("seeking", "timeDisplay", 0)>>
        ELSE <<>>)

\* The step on which a failed peaks fetch settles swallows the failure and binds
\* the player as the no-peaks path does.
C21_FailedFetchBinds ==
    [][\A p \in Players :
          (/\ LastCall'[1] = "loadPeaks" /\ LastCall'[2] = p
           /\ LastCall'[3] = "failed")
          => /\ \A i \in 1..Len(trace') : trace'[i][1] # "onError"
             /\ trace'[2] = <<"WaveSurfer.create", p, "url">>
             /\ wavesurfer'[p]
             /\ engine'[p] = [status |-> "live", volume |-> 100, rate |-> 100,
                              time |-> 0, duration |-> 0,
                              handlers |-> BoundHandlers(options[p].markup)]
             /\ controls'[p].play = options[p].markup.playButton
             /\ controls'[p].speed = options[p].markup.speedButton
             /\ controls'[p].skip = options[p].markup.skipButtons
             /\ Listening(p)' <=> options[p].keyboard.kind # "false"
             /\ container'[p].initialized]_vars

\* C21: if the peaks fetch rejects or returns a non-success status, the failure is
\* swallowed (onError is not invoked) and the engine is still eventually created
\* by loading the audio URL without peaks, with the handlers, controls, keyboard
\* listener and initialized marker of the no-peaks path.
C21_PeaksFailureFallsBack ==
    /\ C21_FailedFetchBinds
    /\ \A p \in Players : (phase[p] = "fetching") ~> (phase[p] = "bound")

\* A failed peaks fetch has just settled and the player is bound to an engine that
\* was created from the audio URL alone.
C21_Witness ==
    \E p \in Players :
        /\ LastCall[1] = "loadPeaks" /\ LastCall[2] = p /\ LastCall[3] = "failed"
        /\ phase[p] = "bound"
        /\ wavesurfer[p]
        /\ engine[p].duration = 0
        /\ Listening(p)
        /\ container[p].initialized

\* ----------------------------------------------------------------------- C22
\* C22: when the container selector resolves to no element, createPlayer throws
\* synchronously and returns no player: no engine is created, no keyboard listener is
\* attached, no announcer element is created, no peaks fetch is started, and nothing
\* on the page changes.
C22_NoContainerThrows ==
    [][\A p \in Players :
          (/\ LastCall'[1] = "createPlayer" /\ LastCall'[2] = p
           /\ Len(LastCall') = 3 /\ LastCall'[3] = "unresolved")
          => /\ Len(trace') = 2 /\ trace'[2][1] = "throw"
             /\ phase'[p] = "absent"
             /\ ~wavesurfer'[p] /\ engine'[p].status = "none"
             /\ ~Listening(p)'
             /\ bodyAnnouncers' = bodyAnnouncers
             /\ UNCHANGED <<phase, options, state, wavesurfer, engine, cleanupFns,
                            plugins, plug, methods, keydown, container, controls,
                            announcerElement, bodyAnnouncers>>]_vars

\* createPlayer has just thrown for an unresolved container on a page where another
\* player is active and the announcer element exists.
C22_Witness ==
    \E p \in Players : \E q \in Players \ {p} :
        /\ LastCall[1] = "createPlayer" /\ LastCall[2] = p
        /\ Len(LastCall) = 3 /\ LastCall[3] = "unresolved"
        /\ Len(trace) = 2 /\ trace[2][1] = "throw"
        /\ phase[p] = "absent"
        /\ Active(q) /\ bodyAnnouncers = 1

\* ----------------------------------------------------------------------- C23
\* The public operations of the player object.
PublicOperations ==
    {"play", "pause", "playPause", "seekTo", "seekToTime", "skipForward", "skipBack",
     "setSpeed", "cycleSpeed", "setVolume", "toggleMute", "use", "destroy", "announce"}

\* C23: after construction succeeds, no call of a public player operation (the
\* transport methods, use, destroy, announce) propagates an exception to the caller,
\* also when a plugin's init or destroy throws.
C23_NothingThrownAfterConstruction ==
    LastCall[1] \in PublicOperations =>
        \A i \in 1..Len(trace) : trace[i][1] # "throw"

\* ----------------------------------------------------------------------- C24
\* The positions of trace at which `name` was done to plugin id.
DoneTo(t, name, id) == {i \in 1..Len(t) : t[i][1] = name /\ t[i][2] = id}

\* C24: use(plugin) appends the plugin to the registry and calls plugin.init exactly
\* once, before use returns, with the player the call was made on; and a later
\* destroy() of the player calls destroy() of every plugin registered this way.
C24_UseInitsDestroyDestroys ==
    [][\A p \in Players :
          /\ (LastCall'[1] = "use" /\ LastCall'[2] = p) =>
                 /\ plugins'[p] = Append(plugins[p], LastCall'[3])
                 /\ Cardinality(DoneTo(trace', "plugin.init", LastCall'[3])) = 1
                 /\ \A i \in DoneTo(trace', "plugin.init", LastCall'[3]) :
                        trace'[i][3] = p
          /\ (LastCall'[1] = "destroy" /\ LastCall'[2] = p) =>
                 \A i \in 1..Len(plugins[p]) :
                     DoneTo(trace', "plugin.destroy", plugins[p][i]) # {}]_vars

\* ----------------------------------------------------------------------- C25
\* C25: after every engine play or pause event a bound play button's pressed state
\* and label equal the playing state: pressed with the pause label after play,
\* not pressed with the play label after pause, on the peaks and on the no-peaks
\* initialization path.
C25_PlayButtonFollowsEngine ==
    [][\A p \in Players :
          (/\ LastCall'[1] = "engine" /\ LastCall'[2] = p
           /\ LastCall'[3] \in {"play", "pause"}
           /\ controls[p].play)
          => /\ controls'[p].pressed = (LastCall'[3] = "play")
             /\ controls'[p].pressed = state'[p].isPlaying]_vars

\* The engine of a player that was initialized with peaks has just emitted play and
\* the bound play button is pressed.
C25_Witness ==
    \E p \in Players :
        /\ LastCall[1] = "engine" /\ LastCall[2] = p /\ LastCall[3] = "play"
        /\ options[p].peaksUrl
        /\ engine[p].duration > 0
        /\ controls[p].play
        /\ controls[p].pressed /\ state[p].isPlaying

\* ----------------------------------------------------------------------- C26
\* C26: at most one announcer live-region element exists in the document in every
\* reachable state: no step but an announcement creates one, an announcement made
\* while there is none creates it (the first one, or one after the element was
\* removed), and an announcement from any player made while there is one reuses it.
C26_OneAnnouncer ==
    [][/\ bodyAnnouncers' <= 1
       /\ Did("announce")' => bodyAnnouncers' = 1
       /\ ~Did("announce")' => bodyAnnouncers' <= bodyAnnouncers]_vars

\* An announcement has just been made on a page with two constructed players and the
\* one announcer element is in the document.
C26_Witness ==
    /\ LastCall[1] = "announce"
    /\ bodyAnnouncers = 1 /\ announcerElement = "attached"
    /\ \E p \in Players : \E q \in Players \ {p} :
           phase[p] # "absent" /\ phase[q] # "absent" /\ LastCall[2] = q

\* ---------------------------------------------- specification: announcements
\* One player announcing messages, with the page's paint frames and timers.
AnnounceOptionsSet ==
    {Options(FALSE, SpeedShorthand("absent"), SkipShorthand("absent"),
             KeyboardShorthand("absent"), 30000, NoMarkup)}

NextAnnounce ==
    \/ \E p \in Solo : \E opts \in AnnounceOptionsSet : CreatePlayer(p, opts)
    \/ \E p \in Solo : \E message \in Messages : AnnounceMessage(p, message)
    \/ Frame
    \/ Timer

SpecAnnounce == InitTimed /\ [][NextAnnounce]_vars

\* ----------------------------------------------------------------------- C27
\* C27: announce(message) first sets the live region's text to empty and only after
\* the next paint frame plus a timer sets it to the message, so that every message
\* is written onto an empty region (two consecutive identical messages are
\* separated by an empty state); the callbacks run oldest first, so once all have
\* run the text is the message of the last call.
C27_EmptyThenSet ==
    [][/\ LastCall'[1] = "announce" =>
              /\ region'.text = ""
              /\ region'.frames = Append(region.frames, LastCall'[3])
              /\ region'.timers = region.timers
       /\ LastCall'[1] = "frame" =>
              /\ region'.text = region.text
              /\ region'.timers = region.timers \o region.frames
       /\ LastCall'[1] = "timer" =>
              /\ region.text = ""
              /\ region'.text = region.timers[1]
              /\ region'.timers = Tail(region.timers)]_vars

\* ------------------------------------------------- specification: time strings
\* formatTime and parseTime (core/index.ts).  A string is the sequence of its
\* characters; a number is <<"nan">>, <<"inf">>, <<"-inf">> or <<"num", ms>> with
\* the value in milliseconds, so that fractions of a second can be given.
DigitChars == <<"0", "1", "2", "3", "4", "5", "6", "7", "8", "9">>

\* String(n) for a non-negative integer n
RECURSIVE DecimalString(_)
DecimalString(n) ==
    IF n < 10 THEN <<DigitChars[n + 1]>>
    ELSE DecimalString(n \div 10) \o <<DigitChars[(n % 10) + 1]>>

\* A formatTime that never shows hours.
formatTime_noHours(seconds) ==
    IF seconds[1] # "num" \/ seconds[2] < 0 THEN <<"0", ":", "0", "0">>
    ELSE LET mins == (seconds[2] % 3600000) \div 60000
             secs == (seconds[2] % 60000) \div 1000
         IN  DecimalString(mins) \o <<":">>
             \o (IF secs < 10 THEN <<"0">> ELSE <<>>) \o DecimalString(secs)

formatTime(seconds) ==
    IF seconds[1] # "num" \/ seconds[2] < 0 THEN <<"0", ":", "0", "0">>
    ELSE LET hrs == seconds[2] \div 3600000
             mins == (seconds[2] % 3600000) \div 60000
             secs == (seconds[2] % 60000) \div 1000
             paddedMins == (IF hrs > 0 /\ mins < 10 THEN <<"0">> ELSE <<>>)
                           \o DecimalString(mins)
             paddedSecs == (IF secs < 10 THEN <<"0">> ELSE <<>>) \o DecimalString(secs)
         IN  IF hrs > 0
             THEN DecimalString(hrs) \o <<":">> \o paddedMins \o <<":">> \o paddedSecs
             ELSE paddedMins \o <<":">> \o paddedSecs

\* timeString.split(':')
RECURSIVE Split(_)
Split(text) ==
    IF \A i \in 1..Len(text) : text[i] # ":" THEN <<text>>
    ELSE LET i == CHOOSE j \in 1..Len(text) :
                      text[j] = ":" /\ \A k \in 1..(j - 1) : text[k] # ":"
         IN  <<SubSeq(text, 1, i - 1)>> \o Split(SubSeq(text, i + 1, Len(text)))

DigitValue(c) == (CHOOSE d \in 1..10 : DigitChars[d] = c) - 1

RECURSIVE DecimalValue(_)
DecimalValue(part) ==
    IF part = <<>> THEN 0
    ELSE 10 * DecimalValue(SubSeq(part, 1, Len(part) - 1)) + DigitValue(part[Len(part)])

IsDigits(part) == \A i \in 1..Len(part) : \E d \in 1..10 : DigitChars[d] = part[i]

\* Number(part) for the strings of the input domain: <<v>>, or <<>> for NaN.  The
\* empty string is 0, decimal digits are their value, a leading minus negates.
NumberOf(part) ==
    IF IsDigits(part) THEN <<DecimalValue(part)>>
    ELSE IF part[1] = "-" /\ Len(part) > 1 /\ IsDigits(Tail(part))
    THEN <<0 - DecimalValue(Tail(part))>>
    ELSE <<>>

parseTime(timeString) ==
    LET parts == [i \in 1..Len(Split(timeString)) |-> NumberOf(Split(timeString)[i])]
    IN  IF \E i \in 1..Len(parts) : parts[i] = <<>> THEN 0
        ELSE IF Len(parts) = 3
        THEN parts[1][1] * 3600 + parts[2][1] * 60 + parts[3][1]
        ELSE IF Len(parts) = 2
        THEN parts[1][1] * 60 + parts[2][1]
        ELSE 0

\* The seconds given to formatTime: whole seconds up to MaxSeconds, those around one
\* hour and a few beyond (ten hours, a day, a hundred hours), fractions, negatives,
\* NaN and the infinities.
MaxSeconds == 130

SecondsInputs ==
    {<<"num", n * 1000>> : n \in 0..MaxSeconds}
    \cup {<<"num", n * 1000>> : n \in 3590..3670}
    \cup {<<"num", n * 1000>> : n \in {599, 600, 7199, 7200, 35999, 36000, 36065, 86399,
                                       360000, 363599}}
    \cup {<<"num", ms>> : ms \in {500, 59999, 65500, 3599999, 3665250}}
    \cup {<<"num", 0 - ms>> : ms \in {1, 1000, 65000}}
    \cup {<<"nan">>, <<"inf">>, <<"-inf">>}

\* Strings given to parseTime that no formatTime call produced.
TimeStrings ==
    {<<"i", "n", "v", "a", "l", "i", "d">>, <<>>, <<"6", "5">>, <<":">>,
     <<"1", ":", "x", "x">>, <<"a", ":", "0", "5">>, <<"1", ":", "2", ":", "3", ":", "4">>,
     <<"1", ":", "0", "5">>, <<"1", ":", "0", "1", ":", "0", "5">>, <<"1", ":", "5">>,
     <<"9", "0", ":", "0", "0">>}

TimeCall(name, argument, result) ==
    /\ trace' = <<<<name, argument, result>>>>
    /\ UNCHANGED <<phase, options, state, wavesurfer, engine, cleanupFns, plugins, plug,
                   methods, keydown, container, controls, announcerElement,
                   bodyAnnouncers, region, inputFocused, destroyCalls>>

FormatTime(seconds) == TimeCall("formatTime", seconds, formatTime(seconds))
ParseTime(timeString) == TimeCall("parseTime", timeString, parseTime(timeString))

\* parseTime of the string the last formatTime call returned.
ParseFormatted ==
    /\ LastCall[1] = "formatTime"
    /\ ParseTime(LastCall[3])

NextTime ==
    \/ \E seconds \in SecondsInputs : FormatTime(seconds)
    \/ \E timeString \in TimeStrings : ParseTime(timeString)
    \/ ParseFormatted

SpecTime == InitSolo /\ [][NextTime]_vars

\* ----------------------------------------------------------------------- C28
\* The positions of the colons of a string.
Colons(text) == {i \in 1..Len(text) : text[i] = ":"}

\* text is digits and colons, with exactly two digits after each colon.
TwoDigitFields(text) ==
    /\ \A i \in 1..Len(text) : text[i] = ":" \/ IsDigits(<<text[i]>>)
    /\ \A i \in Colons(text) :
           /\ i + 2 <= Len(text)
           /\ text[i + 1] # ":" /\ text[i + 2] # ":"
           /\ i + 3 <= Len(text) => text[i + 3] = ":"

\* The strings parseTime cannot parse: a part that is not a number, or a number of
\* parts other than two or three.
Unparsable(text) ==
    \/ \E c \in {"i", "x", "a"} : \E i \in 1..Len(text) : text[i] = c
    \/ Cardinality(Colons(text)) \notin {1, 2}

\* C28: formatTime maps non-negative finite seconds to M:SS below one hour and to
\* H:MM:SS from one hour (65 gives "1:05", 3665 gives "1:01:05") and maps NaN,
\* negative and infinite input to "0:00"; parseTime of the string formatTime gave
\* for a whole non-negative number of seconds n is n; parseTime of an unparsable
\* string is 0.
C28_FormatParseRoundTrip ==
    [][/\ LastCall'[1] = "formatTime" =>
              LET seconds == LastCall'[2]
                  text == LastCall'[3]
              IN  /\ (seconds[1] # "num" \/ seconds[2] < 0) =>
                         text = <<"0", ":", "0", "0">>
                  /\ (seconds[1] = "num" /\ seconds[2] >= 0) =>
                         /\ TwoDigitFields(text)
                         /\ text[1] # ":"
                         /\ Cardinality(Colons(text)) =
                                IF seconds[2] < 3600000 THEN 1 ELSE 2
                         /\ (Len(text) >= 2 /\ text[1] = "0") => text[2] = ":"
                  /\ seconds = <<"num", 65000>> => text = <<"1", ":", "0", "5">>
                  /\ seconds = <<"num", 3665000>> =>
                         text = <<"1", ":", "0", "1", ":", "0", "5">>
       /\ (/\ LastCall[1] = "formatTime" /\ LastCall'[1] = "parseTime"
           /\ LastCall'[2] = LastCall[3]
           /\ LastCall[2][1] = "num" /\ LastCall[2][2] >= 0
           /\ LastCall[2][2] % 1000 = 0)
          => LastCall'[3] * 1000 = LastCall[2][2]
       /\ (LastCall'[1] = "parseTime" /\ Unparsable(LastCall'[2])) => LastCall'[3] = 0]_vars

\* parseTime has just returned 3665 for "1:01:05".
C28_Witness ==
    /\ LastCall[1] = "parseTime"
    /\ LastCall[2] = <<"1", ":", "0", "1", ":", "0", "5">>
    /\ LastCall[3] = 3665

\* ------------------------------------------ specification: keyboard listener
\* One player constructed with each kind of keyboard config and destroyed.
DetachKeyboardConfigs ==
    {KeyboardShorthand(kind) : kind \in {"absent", "false", "true", "undefined"}}
    \cup {KeyboardObject(enabled) : enabled \in {"absent", "undefined", "true", "false"}}

DetachOptionsSet ==
    {Options(peaks, SpeedShorthand("absent"), SkipShorthand("absent"), keyboard,
             30000, NoMarkup) :
        peaks \in BOOLEAN, keyboard \in DetachKeyboardConfigs}

NextDetach ==
    \/ \E p \in Solo :
          \/ \E opts \in DetachOptionsSet : CreatePlayer(p, opts)
          \/ \E ok \in BOOLEAN : PeaksFetchDone(p, ok)
          \/ EngineEvent(p, "ready")
          \/ Destroy(p)
    \/ \E key \in {" ", "m"} : KeyDown(key)

SpecDetach == InitSolo /\ [][NextDetach]_vars

\* ----------------------------------------------------------------------- C29
\* How many of the document's keydown listeners are player p's.
ListenerCount(p) == Cardinality({i \in 1..Len(keydown) : keydown[i] = p})

\* The keyboard config normalizes to an enabled one and is truthy, so that
\* initializePlayer sets the shortcuts up with it.
EnabledKeyboard(config) ==
    \/ config.kind \in {"absent", "true"}
    \/ config.kind = "object" /\ config.enabled \in {"absent", "true"}

\* C29: setting up keyboard shortcuts for a player attaches exactly one
\* document-level keydown listener when the normalized config is enabled and none
\* when it is disabled (false or an object with enabled false); the detach
\* operation, which destroy() calls, removes that listener, and calling it again
\* when already detached does not throw and changes nothing.
C29_OneListenerDetachIdempotent ==
    [][\A p \in Players :
          /\ (/\ LastCall'[1] \in {"createPlayer", "loadPeaks"} /\ LastCall'[2] = p
              /\ phase'[p] = "bound")
             => /\ ListenerCount(p) = 0
                /\ ListenerCount(p)' =
                       IF EnabledKeyboard(options'[p].keyboard) THEN 1 ELSE 0
          /\ (LastCall'[1] = "destroy" /\ LastCall'[2] = p)
             => /\ ListenerCount(p)' = 0
                /\ ListenerCount(p) = 0 => keydown' = keydown
                /\ \A i \in 1..Len(trace') : trace'[i][1] # "throw"]_vars

\* A second destroy() has just called the detach operation of a player whose
\* listener the first destroy() had removed.
C29_Witness ==
    \E p \in Players :
        /\ LastCall[1] = "destroy" /\ LastCall[2] = p
        /\ destroyCalls[p] = 2
        /\ EnabledKeyboard(options[p].keyboard)
        /\ Did("cleanup")
        /\ ListenerCount(p) = 0

\* ----------------------------------------------------------------------- C30
\* C30: state.isPlaying is false from construction on, the engine's play event makes
\* it true, its pause and finish events make it false, and its seeking,
\* audioprocess, ready and error events, like every step that is not an engine
\* event, leave it as it is: after any sequence of engine events it is true exactly
\* when the most recent of play, pause and finish was play.
C30_IsPlayingFollowsEvents ==
    [][\A p \in Players :
          /\ (LastCall'[1] = "engine" /\ LastCall'[2] = p) =>
                 state'[p].isPlaying =
                     CASE LastCall'[3] = "play" -> TRUE
                       [] LastCall'[3] \in {"pause", "finish"} -> FALSE
                       [] OTHER -> state[p].isPlaying
          /\ (LastCall'[1] = "engine" /\ LastCall'[2] # p) =>
                 state'[p].isPlaying = state[p].isPlaying
          /\ LastCall'[1] # "engine" =>
                 state'[p].isPlaying = (phase[p] # "absent" /\ state[p].isPlaying)]_vars

\* The engine has just emitted finish while the player was playing, and isPlaying is
\* false.
C30_Witness ==
    \E p \in Players :
        /\ LastCall[1] = "engine" /\ LastCall[2] = p /\ LastCall[3] = "finish"
        /\ Did("onFinish")
        /\ ~state[p].isPlaying
        /\ controls[p].pressed

\* ----------------------------------------------------- specification: events
\* Every engine event on one player with bound controls and analytics plugins
\* registered before or after the engine exists.
EventsOptionsSet ==
    {Options(peaks, SpeedShorthand("absent"), SkipShorthand("absent"),
             KeyboardShorthand("false"), 30000, FullMarkup) : peaks \in BOOLEAN}

NextEvents ==
    \E p \in Solo :
        \/ \E opts \in EventsOptionsSet : CreatePlayer(p, opts)
        \/ \E ok \in BOOLEAN : PeaksFetchDone(p, ok)
        \/ \E ev \in EngineEvents : EngineEvent(p, ev)
        \/ \E id \in PluginIds : UseAnalytics(p, id, AnalyticsShorthand("undefined"), TRUE)
        \/ Destroy(p)

SpecEvents == InitSolo /\ [][NextEvents]_vars

\* ----------------------------------------------------------------------- C31
\* C31: in every reachable state previousVolume is nonzero, within (0,1]: it starts
\* at 1 and is only ever overwritten by a clamped setVolume value greater than 0 or,
\* when muting, by the engine volume read then (1 when that is 0 or there is no
\* engine).
C31_PreviousVolumeNonzero ==
    /\ \A p \in Players : state[p].previousVolume = 100
    /\ [][\A p \in Players :
             /\ state'[p].previousVolume \in 1..100
             /\ state'[p].previousVolume # state[p].previousVolume =>
                    \/ /\ LastCall'[1] = "setVolume" /\ LastCall'[2] = p
                       /\ state'[p].previousVolume = VolumeInRange(LastCall'[3])
                    \/ /\ LastCall'[1] \in {"toggleMute", "keydown"}
                       /\ ~state[p].isMuted /\ state'[p].isMuted
                       /\ state'[p].previousVolume =
                              IF wavesurfer[p] /\ engine[p].volume # 0
                              THEN engine[p].volume ELSE 100]_vars

\* toggleMute() has just muted a player whose engine volume was 0, and previousVolume
\* is 1.
C31_Witness ==
    \E p \in Players :
        /\ JustMuted(p, 0)
        /\ state[p].isMuted
        /\ state[p].previousVolume = 100

\* ----------------------------------------------------------------------- C32
\* C32: a speed-button click leaves the currentSpeed and the engine rate that a
\* cycleSpeed() call from the same state would leave, also from a currentSpeed that
\* is not an option; the click also sets the button's label to the new speed and
\* announces the speed change.
C32_ClickIsCycleSpeed ==
    [][\A p \in Players :
          (LastCall'[1] = "click" /\ LastCall'[2] = p /\ LastCall'[3] = "speed") =>
              LET cycled == cycleSpeed(World(<<"cycleSpeed", p>>), p)
              IN  /\ state'[p].currentSpeed = cycled.state[p].currentSpeed
                  /\ engine'[p].rate = cycled.engine[p].rate
                  /\ wavesurfer'[p] = cycled.wavesurfer[p]
                  /\ controls'[p].speedLabel = state'[p].currentSpeed
                  /\ trace'[Len(trace')] = <<"announce", "Playback speed">>]_vars

\* The speed button of a player with an engine has just been clicked: the engine
\* received the new rate, which is the first option, and the label shows it.
C32_Witness ==
    \E p \in Players :
        /\ Len(trace) >= 3
        /\ LastCall[1] = "click" /\ LastCall[3] = "speed"
        /\ trace[2] = <<"ws.setPlaybackRate", p, state[p].currentSpeed>>
        /\ state[p].currentSpeed = At(ConfiguredSpeed(p).options, 0)
        /\ controls[p].speedLabel = state[p].currentSpeed

\* ----------------------------------------------------------------------- C33
\* C33: each engine event is handled in one step in which the core handler's state
\* update and lifecycle callback come before every control and plugin handler's
\* effect: when onReady runs isReady is true and duration is the engine's, when
\* onPause(t) runs isPlaying is false and t is state.currentTime, and when onSeek(t)
\* runs t is state.currentTime.
C33_CoreHandlerFirst ==
    [][\A p \in Players :
          (LastCall'[1] = "engine" /\ LastCall'[2] = p) =>
              LET ev == LastCall'[3]
              IN  /\ ev = "ready" =>
                        /\ trace'[2] = <<"onReady", p>>
                        /\ state'[p].isReady
                        /\ state'[p].duration = engine'[p].duration
                  /\ ev = "play" =>
                        /\ trace'[2] = <<"onPlay", p>>
                        /\ state'[p].isPlaying
                  /\ ev = "pause" =>
                        /\ trace'[2] = <<"onPause", p, state'[p].currentTime>>
                        /\ ~state'[p].isPlaying
                        /\ state'[p].currentTime = engine'[p].time
                  /\ ev = "finish" =>
                        /\ trace'[2] = <<"onFinish", p>>
                        /\ ~state'[p].isPlaying
                  /\ ev = "seeking" =>
                        /\ trace'[2] = <<"onSeek", p, state'[p].currentTime>>
                        /\ state'[p].currentTime = engine'[p].time
                  /\ \A i \in 3..Len(trace') :
                        trace'[i][1] \in {"track", "devLog"}]_vars

\* The engine of a playing player with a bound play button and an analytics plugin
\* has emitted pause away from the position the state held: onPause received the
\* new position, then the plugin tracked the pause and the button shows paused.
C33_Witness ==
    \E p \in Players :
        /\ Len(trace) = 3
        /\ LastCall[1] = "engine" /\ LastCall[3] = "pause"
        /\ trace[2][1] = "onPause" /\ trace[2][3] > 0
        /\ trace[3][1] = "track" /\ trace[3][3] = "pause"
        /\ controls[p].play /\ ~controls[p].pressed

\* ----------------------------------------------------------------------- C34
\* The positions of the onError callbacks in a trace.
ErrorCallbacks(t) == {i \in 1..Len(t) : t[i][1] = "onError"}

\* C34: onError is invoked exactly once per engine error event, with the wrapped
\* error and with isReady and isPlaying unchanged, and exactly once per destroy()
\* call, as its last step, with the 'Player destroyed' error; no other operation or
\* event invokes onError.
C34_OnErrorExactlyOnce ==
    [][\A p \in Players :
          IF LastCall'[1] = "engine" /\ LastCall'[2] = p /\ LastCall'[3] = "error"
          THEN /\ Cardinality(ErrorCallbacks(trace')) = 1
               /\ \A i \in ErrorCallbacks(trace') :
                      trace'[i] = <<"onError", p, "engine error">>
               /\ state'[p].isReady = state[p].isReady
               /\ state'[p].isPlaying = state[p].isPlaying
          ELSE IF LastCall'[1] = "destroy" /\ LastCall'[2] = p
          THEN /\ ErrorCallbacks(trace') = {Len(trace')}
               /\ trace'[Len(trace')] = <<"onError", p, "Player destroyed">>
          ELSE \A i \in ErrorCallbacks(trace') : trace'[i][2] # p]_vars

\* ----------------------------------------------------------------------- C35
\* The positions in a trace at which plugin instance id emitted the event `name`,
\* to the tracker or to the development log.
Emitted(t, id, name) ==
    {i \in 1..Len(t) : t[i][1] \in {"track", "devLog"} /\ t[i][2] = id /\ t[i][3] = name}

\* Plugin instance id's handler for ev is registered on player p's engine.
Registered(p, id, ev) ==
    \E i \in 1..Len(engine[p].handlers) :
        engine[p].handlers[i] = Handler(ev, "analytics", id)

AnalyticsOn(p, id) ==
    /\ \E i \in 1..Len(plugins[p]) : plugins[p][i] = id
    /\ plug[id].kind = "analytics"
    /\ plug[id].config.enabled

\* C36: an enabled analytics plugin registered with use() tracks the engine's play,
\* pause and finish events whether or not the engine existed when it was
\* registered: after an engine play the plugin has tracked a play, after an engine
\* finish it has tracked a completion, and an engine pause emits a pause.
C36_TracksWhenRegisteredEarly ==
    [][\A p \in Players, id \in PluginIds :
          (LastCall'[1] = "engine" /\ LastCall'[2] = p /\ AnalyticsOn(p, id)) =>
              /\ (LastCall'[3] = "play" /\ plug[id].config.trackPlay) =>
                     plug'[id].hasTrackedPlay
              /\ (LastCall'[3] = "pause" /\ plug[id].config.trackPause) =>
                     Emitted(trace', id, "pause") # {}
              /\ (LastCall'[3] = "finish" /\ plug[id].config.trackComplete) =>
                     plug'[id].hasTrackedComplete]_vars

\* ----------------------------------------------------------------------- C37
\* toggleMute and setVolume calls before and after the engine is created, with no
\* other hand on the engine's volume.
NextMute ==
    \E p \in Solo :
        \/ \E opts \in VolumeOptionsSet : CreatePlayer(p, opts)
        \/ \E ok \in BOOLEAN : PeaksFetchDone(p, ok)
        \/ EngineEvent(p, "ready")
        \/ ToggleMute(p)
        \/ \E volume \in SetVolumeValues : SetVolume(p, volume)
        \/ KeyDown("m")
        \/ Destroy(p)

SpecMute == InitSolo /\ [][NextMute]_vars

\* C37: whenever isMuted is true and the player has an engine, the engine's volume
\* is 0.
C37_MutedEngineIsSilent ==
    \A p \in Players :
        (state[p].isMuted /\ wavesurfer[p]) => engine[p].volume = 0

\* ----------------------------------------------------------------------- C38
\* Every entry point to a speed change or a skip, on a player with bound controls
\* and a keyboard listener, with analytics plugins registered at any time.
EntryOptionsSet ==
    {Options(peaks, SpeedObject("absent", <<<<50, 100, 200>>>>, <<>>),
             SkipShorthand("absent"), KeyboardShorthand("absent"), 30000, FullMarkup) :
        peaks \in BOOLEAN}

NextEntry ==
    \/ \E p \in Solo :
          \/ \E opts \in EntryOptionsSet : CreatePlayer(p, opts)
          \/ \E ok \in BOOLEAN : PeaksFetchDone(p, ok)
          \/ EngineEvent(p, "ready")
          \/ \E id \in PluginIds : UseAnalytics(p, id, AnalyticsShorthand("undefined"), TRUE)
          \/ SetSpeed(p, 50)
          \/ CycleSpeed(p)
          \/ SkipForward(p, <<>>)
          \/ SkipBack(p, <<15>>)
          \/ ClassSetSpeed(p, 200)
          \/ ClassCycleSpeed(p)
          \/ ClassSkipForward(p, <<15>>)
          \/ ClassSkipBack(p, <<>>)
          \/ ClickSpeed(p)
          \/ ClickSkipBack(p)
          \/ ClickSkipForward(p)
    \/ \E key \in {"ArrowUp", "ArrowDown", "j", "l"} : KeyDown(key)

SpecEntry == InitSolo /\ [][NextEntry]_vars

\* The plugin instances that tracked the event `name` in a trace, in order.
RECURSIVE TrackersOf(_, _)
TrackersOf(t, name) ==
    IF t = <<>> THEN <<>>
    ELSE LET e == t[Len(t)]
             rest == TrackersOf(SubSeq(t, 1, Len(t) - 1), name)
         IN  IF e[1] \in {"track", "devLog"} /\ e[3] = name
             THEN Append(rest, e[2])
             ELSE rest

\* The step called the player's setSpeed: the call itself, cycleSpeed, the class
\* wrapper's methods, a speed-button click, or a speed key that went through.
SpeedEntry(p) ==
    \/ LastCall'[1] \in {"setSpeed", "cycleSpeed", "WCAudioPlayer.setSpeed",
                         "WCAudioPlayer.cycleSpeed"} /\ LastCall'[2] = p
    \/ LastCall'[1] = "click" /\ LastCall'[2] = p /\ LastCall'[3] = "speed"
    \/ /\ LastCall'[1] = "keydown" /\ LastCall'[2] \in {"ArrowUp", "ArrowDown"}
       /\ state'[p].currentSpeed # state[p].currentSpeed

\* The step called the player's skipForward (forward) or skipBack.
SkipEntry(p, forward) ==
    \/ /\ LastCall'[1] \in (IF forward
                            THEN {"skipForward", "WCAudioPlayer.skipForward"}
                            ELSE {"skipBack", "WCAudioPlayer.skipBack"})
       /\ LastCall'[2] = p
    \/ /\ LastCall'[1] = "click" /\ LastCall'[2] = p
       /\ LastCall'[3] = (IF forward THEN "skipForward" ELSE "skipBack")
    \/ /\ LastCall'[1] = "keydown" /\ LastCall'[2] = (IF forward THEN "l" ELSE "j")
       /\ \E i \in 1..Len(trace') : trace'[i][1] = "ws.seekTo"

\* C38: every speed change and skip, from every entry point, runs each wrapper
\* currently installed on the player once, in the order installed, whenever the
\* wrappers were installed.
C38_EveryEntryThroughWrappers ==
    [][\A p \in Solo :
          /\ SpeedEntry(p) =>
                 /\ TrackersOf(trace', "speed_change") = methods[p].setSpeed
                 /\ \A i \in 1..Len(trace') :
                        (trace'[i][1] \in {"track", "devLog"}
                             /\ trace'[i][3] = "speed_change") =>
                            trace'[i][4] = state'[p].currentSpeed
          /\ SkipEntry(p, TRUE) =>
                 TrackersOf(trace', "skip_forward") = methods[p].skipForward
          /\ SkipEntry(p, FALSE) =>
                 TrackersOf(trace', "skip_back") = methods[p].skipBack]_vars

\* A speed key pressed on a player whose engine was created in the constructor, so
\* that both plugins were registered after the listener was attached: both wrappers
\* tracked the new speed.
C38_Witness ==
    \E p \in Solo :
        /\ ~options[p].peaksUrl
        /\ LastCall[1] = "keydown" /\ LastCall[2] = "ArrowUp"
        /\ methods[p].setSpeed = <<1, 2>>
        /\ TrackersOf(trace, "speed_change") = <<1, 2>>

\* ----------------------------------------------------------------------- C39
\* C39: every destroy() call, also one in which a plugin's destroy() throws,
\* completes the teardown: the engine is destroyed and its reference released, the
\* announcer cleanup runs and the container loses its initialized mark.
C39_TeardownSurvivesThrow ==
    [][\A p \in Players :
          (LastCall'[1] = "destroy" /\ LastCall'[2] = p) =>
              /\ wavesurfer[p] => engine'[p].status = "destroyed"
              /\ ~wavesurfer'[p]
              /\ \E i \in 1..Len(trace') : trace'[i] = <<"cleanupAnnouncer", p>>
              /\ ~container'[p].initialized]_vars

====
